---- MODULE Spec2Model ----
(***************************************************************************)
(* go-try: the interactive selector (package tui), the workspace package   *)
(* (Scan, Create, Delete), the shell script builder and the exec command.  *)
(*                                                                         *)
(* Text is a sequence of one-character strings.  A path is a sequence of   *)
(* components, each component a text: <<B>> is "/b", <<B, S>> is "/b/s".   *)
(***************************************************************************)
EXTENDS Integers, Sequences, FiniteSets, TLC

VARIABLES
    fs,             \* the filesystem: path -> node, for the paths that exist
    phase,          \* position of runExec/runSelector: the tea.Program and after
    loader,         \* position of the loadEntries command started by Init
    loadMsg,        \* the load outcome message in flight (entriesLoadedMsg / errMsg)
    pendingFilter,  \* results of the filterItems commands in flight
    late,           \* events handled after tea.Quit was returned, before QuitMsg
    state,          \* Model.state
    list,           \* Model.list (bubbles list.Model)
    entries,        \* Model.entries
    size,           \* Model.width, Model.height
    deleteTarget,   \* Model.deleteTarget
    deleteConfirm,  \* Model.deleteConfirm
    action,         \* Model.action
    err,            \* Model.err
    cmd,            \* the tea.Cmd returned by the latest Update
    out,            \* what runSelector returned or printed
    delBase,        \* workspace.Delete: basePath argument of the latest call
    delPath,        \* workspace.Delete: path argument of the latest call
    delResult,      \* workspace.Delete: result of the latest call
    fsBefore,       \* the filesystem before the latest workspace.Delete call
    rejected,       \* history: the deleteTarget of a refused confirmation, while
                    \* the user retries it (delete key, "Y", "E", "S", Enter)
    typed,          \* history: the keys handled so far in a scripted session
    initialQuery,   \* Model.initialQuery
    call,           \* the latest call of a function of package workspace or cli
    result,         \* what that call returned
    procs           \* the calls of Create and CloneScript in progress side by
                    \* side, in the order they began

vars == <<fs, phase, loader, loadMsg, pendingFilter, late, state, list, entries,
          size, deleteTarget, deleteConfirm, action, err, cmd, out,
          delBase, delPath, delResult, fsBefore, rejected, typed,
          initialQuery, call, result, procs>>

sessionVars == <<phase, loader, loadMsg, pendingFilter, late, state, list, entries,
                 size, deleteTarget, deleteConfirm, action, err, cmd, out, rejected,
                 typed, initialQuery>>

deleteVars == <<delBase, delPath, delResult, fsBefore>>

callVars == <<call, result, procs>>

-----------------------------------------------------------------------------
(* Bounds of the model *)

\* longest confirmation text typed in the delete-confirmation bar
MaxConfirmLen == 3

\* longest filter text typed into the list's filter input
MaxFilterLen == 2

\* most events the event loop hands to Update between tea.Quit and QuitMsg
MaxLate == 1

\* most filterItems results in flight at once (equal results are held once)
MaxPending == 1

-----------------------------------------------------------------------------
(* Text *)

\* strings.ToLower on one character, for the characters of the model
Lower(c) ==
    CASE c = "Y" -> "y"
      [] c = "E" -> "e"
      [] c = "S" -> "s"
      [] OTHER -> c

\* strings.HasPrefix on texts (and on paths, component-wise)
HasPrefix(s, p) == Len(p) <= Len(s) /\ SubSeq(s, 1, Len(p)) = p

\* the characters of pat occur in s in order, ignoring case: the match test of
\* the list's default (fuzzy) filter
RECURSIVE FuzzyMatch(_, _)
FuzzyMatch(pat, s) ==
    IF pat = <<>> THEN TRUE
    ELSE IF s = <<>> THEN FALSE
    ELSE IF Lower(Head(pat)) = Lower(Head(s)) THEN FuzzyMatch(Tail(pat), Tail(s))
    ELSE FuzzyMatch(pat, Tail(s))

\* the confirmation token of handleDeleteConfirmKey
YES == <<"Y", "E", "S">>

-----------------------------------------------------------------------------
(* Names and paths of the model's filesystems *)

B == <<"b">>
O == <<"o">>
BX == <<"b", "e">>
LB == <<"Y">>
YE == <<"y", "e">>
S == <<"e", "s">>
E == <<"e">>
HS == <<".", "s">>
DotDot == <<".", ".">>

\* getTriesPath(): the base directory of the session, "/b"
BasePath == <<B>>

\* filepath.Join(basePath, name) for a plain name
Join(base, name) == Append(base, name)

\* filepath.Clean on an absolute path: ".." steps are resolved lexically
RECURSIVE CleanFrom(_, _)
CleanFrom(done, rest) ==
    IF rest = <<>> THEN done
    ELSE IF Head(rest) = DotDot
         THEN CleanFrom(IF done = <<>> THEN <<>> ELSE SubSeq(done, 1, Len(done) - 1),
                        Tail(rest))
         ELSE CleanFrom(Append(done, Head(rest)), Tail(rest))

\* filepath.Abs on an absolute path
Abs(p) == CleanFrom(<<>>, p)

\* the path as the string the code holds: "/" + components joined by "/"
RECURSIVE Str(_)
Str(p) ==
    IF p = <<>> THEN <<"/">>
    ELSE IF Len(p) = 1 THEN <<"/">> \o p[1]
    ELSE Str(SubSeq(p, 1, Len(p) - 1)) \o <<"/">> \o p[Len(p)]

-----------------------------------------------------------------------------
(* The filesystem *)

Dir(t) == [kind |-> "dir", target |-> <<>>, mtime |-> t, readable |-> TRUE]
File(t) == [kind |-> "file", target |-> <<>>, mtime |-> t, readable |-> TRUE]
Link(to) == [kind |-> "link", target |-> to, mtime |-> 0, readable |-> TRUE]
NoReadDir(t) == [kind |-> "dir", target |-> <<>>, mtime |-> t, readable |-> FALSE]

\* most symbolic links filepath.EvalSymlinks follows before it gives up
MaxLinks == 4

\* filepath.EvalSymlinks: walk the components, following links; the result is
\* [ok, path]; a missing component or too many links is an error
RECURSIVE EvalFrom(_, _, _, _)
EvalFrom(f, cur, rest, fuel) ==
    IF rest = <<>> THEN [ok |-> TRUE, path |-> cur]
    ELSE LET next == Append(cur, Head(rest)) IN
         IF next \notin DOMAIN f THEN [ok |-> FALSE, path |-> <<>>]
         ELSE IF f[next].kind = "link"
              THEN IF fuel = 0 THEN [ok |-> FALSE, path |-> <<>>]
                   ELSE EvalFrom(f, <<>>, f[next].target \o Tail(rest), fuel - 1)
              ELSE EvalFrom(f, next, Tail(rest), fuel)

EvalSymlinks(f, p) == EvalFrom(f, <<>>, p, MaxLinks)

\* os.RemoveAll: the path and everything below it
RemoveAll(f, p) == [q \in {r \in DOMAIN f : ~HasPrefix(r, p)} |-> f[q]]

\* mutant of InsideBase: a plain string-prefix test, the separator left out
InsideBaseNoSeparator(realTarget, realBase) ==
    HasPrefix(Str(realTarget), Str(realBase))

\* the safety check of workspace.Delete: the resolved target string starts
\* with the resolved base string followed by the separator
InsideBase(realTarget, realBase) ==
    HasPrefix(Str(realTarget), Str(realBase) \o <<"/">>)

\* workspace.Delete(basePath, path): [err, fs] with fs the filesystem after it
Delete(f, basePath, path) ==
    LET absBase == Abs(basePath)
        absTarget == Abs(path)
        realBase == EvalSymlinks(f, absBase)
        realTarget == EvalSymlinks(f, absTarget)
    IN  IF ~realBase.ok THEN [err |-> "base symlinks", fs |-> f]
        ELSE IF ~realTarget.ok THEN [err |-> "target symlinks", fs |-> f]
        ELSE IF ~InsideBase(realTarget.path, realBase.path)
             THEN [err |-> "safety check failed", fs |-> f]
             ELSE [err |-> "nil", fs |-> RemoveAll(f, realTarget.path)]

-----------------------------------------------------------------------------
(* workspace.Scan *)

\* time.Now() in Scan, in hours like the modification times
ScanTime == 6

\* a float64 that is finite is carried in thousandths, rounded down
Milli == 1000

Finite(m) == [inf |-> FALSE, milli |-> m]

\* +Inf, the float64 quotient of 3.0 by 0
PlusInf == [inf |-> TRUE, milli |-> 0]

\* z = z - (z*z-x)/(2*z), n times; x and z in thousandths
RECURSIVE Newton(_, _, _)
Newton(x, z, n) ==
    IF n = 0 \/ z = 0 THEN z
    ELSE Newton(x, z - ((((z * z) \div Milli) - x) * Milli) \div (2 * z), n - 1)

\* sqrt(x), x in thousandths: 0 for x <= 0, else ten steps of Newton from x/2
sqrt(x) == IF x <= 0 THEN 0 ELSE Newton(x, x \div 2, 10)

\* datePrefix.MatchString(name): ^\d{4}-\d{2}-\d{2}-
DatePrefixed(name) ==
    /\ Len(name) >= 11
    /\ \A i \in {1, 2, 3, 4, 6, 7, 9, 10} :
          name[i] \in {"0", "1", "2", "3", "4", "5", "6", "7", "8", "9"}
    /\ \A i \in {5, 8, 11} : name[i] = "-"

\* 3.0 / sqrt(hoursSinceAccess + 1), plus 2.0 for a date-prefixed name
BaseScore(name, mtime) ==
    LET root == sqrt((ScanTime - mtime + 1) * Milli)
        recency == IF root = 0 THEN PlusInf ELSE Finite((3 * Milli * Milli) \div root)
    IN  IF DatePrefixed(name) /\ ~recency.inf THEN Finite(recency.milli + 2 * Milli)
        ELSE recency

\* mutant of Entry: the path of every entry is the base directory
EntryAtBase(base, name, node) ==
    [Name |-> name, Path |-> base, ModTime |-> node.mtime,
     BaseScore |-> BaseScore(name, node.mtime)]

Entry(base, name, node) ==
    [Name |-> name, Path |-> Join(base, name), ModTime |-> node.mtime,
     BaseScore |-> BaseScore(name, node.mtime)]

\* the names os.ReadDir lists in directory d
Children(f, d) ==
    {p[Len(p)] : p \in {q \in DOMAIN f : Len(q) = Len(d) + 1 /\ HasPrefix(q, d)}}

\* mutant of ScanKept: hidden directories are kept too
ScanKeptWithHidden(f, basePath, d) ==
    {Entry(basePath, n, f[Append(d, n)]) :
        n \in {c \in Children(f, d) : f[Append(d, c)].kind = "dir"}}

\* the entries Scan keeps: not hidden, directories only
ScanKept(f, basePath, d) ==
    {Entry(basePath, n, f[Append(d, n)]) :
        n \in {c \in Children(f, d) :
                 /\ ~HasPrefix(c, <<".">>)
                 /\ f[Append(d, c)].kind = "dir"}}

RECURSIVE Perms(_)
Perms(set) ==
    IF set = {} THEN {<<>>}
    ELSE UNION {{<<x>> \o q : q \in Perms(set \ {x})} : x \in set}

\* a < b on float64 values
Less(a, b) == ~a.inf /\ (b.inf \/ a.milli < b.milli)

\* mutant of SortedByModTime: the order is by score, highest first
SortedByScore(es) ==
    \A i \in 1..Len(es) : \A j \in 1..Len(es) :
        i < j => ~Less(es[i].BaseScore, es[j].BaseScore)

\* the orders sort.Slice can leave: no entry is followed by one modified after it
SortedByModTime(es) ==
    \A i \in 1..Len(es) : \A j \in 1..Len(es) :
        i < j => ~(es[j].ModTime > es[i].ModTime)

\* mutant of Scan: a missing base directory is an error like any other
ScanFailsOnMissingBase(f, basePath) ==
    LET d == EvalSymlinks(f, basePath) IN
    IF ~d.ok \/ (d.path # <<>> /\ (f[d.path].kind # "dir" \/ ~f[d.path].readable))
    THEN {[err |-> "read error", entries |-> <<>>]}
    ELSE {[err |-> "nil", entries |-> es] :
             es \in {q \in Perms(ScanKept(f, basePath, d.path)) : SortedByModTime(q)}}

\* workspace.Scan(basePath): the possible results [err, entries]
Scan(f, basePath) ==
    LET d == EvalSymlinks(f, basePath) IN
    IF ~d.ok THEN {[err |-> "nil", entries |-> <<>>]}
    ELSE IF d.path # <<>> /\ (f[d.path].kind # "dir" \/ ~f[d.path].readable)
         THEN {[err |-> "read error", entries |-> <<>>]}
         ELSE {[err |-> "nil", entries |-> es] :
                  es \in {q \in Perms(ScanKept(f, basePath, d.path)) : SortedByModTime(q)}}

-----------------------------------------------------------------------------
(* The list widget (bubbles list.Model) as the selector uses it.  The index  *)
(* is Paginator.Page * PerPage + cursor.                                     *)

NewList ==
    [items |-> <<>>, filterState |-> "Unfiltered", filterValue |-> <<>>,
     filteredItems |-> <<>>, index |-> 0]

\* list.VisibleItems
VisibleItems(l) ==
    IF l.filterState # "Unfiltered" THEN l.filteredItems ELSE l.items

\* list.SelectedItem() # nil
HasSelection(l) == l.index < Len(VisibleItems(l))

\* list.SelectedItem(), when there is one
SelectedItem(l) == VisibleItems(l)[l.index + 1]

\* list.FilterValue
FilterValue(l) == l.filterValue

\* list.FilterState
FilterState(l) == l.filterState

Max(a, b) == IF a > b THEN a ELSE b

\* the tail of handleBrowsing: keep the cursor within the visible items
ClampIndex(l) ==
    IF l.index > Len(VisibleItems(l)) - 1
    THEN [l EXCEPT !.index = Max(0, Len(VisibleItems(l)) - 1)]
    ELSE l

\* mutant of ResetFiltering: the filter text survives
ResetFilteringKeepsText(l) ==
    IF l.filterState = "Unfiltered" THEN l
    ELSE [l EXCEPT !.filterState = "Unfiltered", !.filteredItems = <<>>]

\* list.resetFiltering
ResetFiltering(l) ==
    IF l.filterState = "Unfiltered" THEN l
    ELSE [l EXCEPT !.filterState = "Unfiltered", !.filterValue = <<>>,
                   !.filteredItems = <<>>]

\* list.CursorUp
CursorUp(l) == [l EXCEPT !.index = Max(0, l.index - 1)]

\* list.CursorDown
CursorDown(l) ==
    LET n == Len(VisibleItems(l))
        c == l.index + 1
    IN  [l EXCEPT !.index = IF c < n THEN c ELSE IF c > n THEN 0 ELSE n - 1]

\* list.handleBrowsing on a key: [l, cmd]
HandleBrowsing(l, k) ==
    LET hasItems == Len(l.items) # 0 IN
    IF k = "esc" /\ l.filterState = "FilterApplied"
        THEN [l |-> ClampIndex(ResetFiltering(l)), cmd |-> "nil"]
    ELSE IF k = "up" /\ hasItems
        THEN [l |-> ClampIndex(CursorUp(l)), cmd |-> "nil"]
    ELSE IF k = "down" /\ hasItems
        THEN [l |-> ClampIndex(CursorDown(l)), cmd |-> "nil"]
    ELSE IF k = "/" /\ hasItems
        THEN [l |-> [l EXCEPT !.filteredItems =
                                  IF l.filterValue = <<>> THEN l.items ELSE @,
                              !.index = 0,
                              !.filterState = "Filtering"],
              cmd |-> "blink"]
    ELSE [l |-> ClampIndex(l), cmd |-> "nil"]

\* the characters a key event can carry (tea.KeyRunes)
Runes == {"Y", "E", "S", "e", "/", "r", "d", "i", "s", ".", "g", "t"}

\* the characters typed into the confirmation bar
ConfirmRunes == {"Y", "E", "S", "e"}

\* the characters typed into the list's filter input
FilterRunes == {"E", "S"}

\* list.handleFiltering on a key: [l, cmd]; cmd "filter" is a filterItems
\* command for the new filter text
HandleFiltering(l, k) ==
    IF k = "esc"
        THEN [l |-> ResetFiltering(l), cmd |-> "nil"]
    ELSE IF k \in {"tab", "up", "down"} /\ l.filterValue # <<>>
        THEN IF Len(l.items) = 0 THEN [l |-> l, cmd |-> "nil"]
             ELSE IF Len(VisibleItems(l)) = 0
                  THEN [l |-> ResetFiltering(l), cmd |-> "nil"]
                  ELSE [l |-> [l EXCEPT !.filterState = "FilterApplied"],
                        cmd |-> "nil"]
    ELSE IF k \in Runes
        THEN [l |-> [l EXCEPT !.filterValue = Append(@, k)], cmd |-> "filter"]
    ELSE IF k = "backspace" /\ l.filterValue # <<>>
        THEN [l |-> [l EXCEPT !.filterValue = SubSeq(@, 1, Len(@) - 1)],
              cmd |-> "filter"]
    ELSE [l |-> l, cmd |-> "nil"]

\* list.Update on a key message
ListUpdateKey(l, k) ==
    IF l.filterState = "Filtering" THEN HandleFiltering(l, k)
    ELSE HandleBrowsing(l, k)

\* mutant of SetItems: the new items are put after the old ones
SetItemsAppends(l, items) == [l EXCEPT !.items = @ \o items \o items]

\* list.SetItems; the command it returns is dropped by the caller
SetItems(l, items) ==
    [l EXCEPT !.items = items,
              !.filteredItems = IF l.filterState # "Unfiltered" THEN <<>> ELSE @]

RECURSIVE MatchingItems(_, _)
MatchingItems(s, pat) ==
    IF s = <<>> THEN <<>>
    ELSE IF FuzzyMatch(pat, Head(s).Name)
         THEN <<Head(s)>> \o MatchingItems(Tail(s), pat)
         ELSE MatchingItems(Tail(s), pat)

\* the matches a filterItems command computes for filter text v
FilterItems(items, v) == IF v = <<>> THEN items ELSE MatchingItems(items, v)

-----------------------------------------------------------------------------
(* workspace.Create and uniqueName *)

\* time.Now().Format("2006-01-02") on the day of the run
Today == <<"2", "0", "2", "5", "-", "0", "1", "-", "1", "9">>

RECURSIVE TrimLeft(_)
TrimLeft(t) == IF t # <<>> /\ Head(t) = " " THEN TrimLeft(Tail(t)) ELSE t

RECURSIVE TrimRight(_)
TrimRight(t) ==
    IF t # <<>> /\ t[Len(t)] = " " THEN TrimRight(SubSeq(t, 1, Len(t) - 1)) ELSE t

\* strings.TrimSpace
TrimSpace(t) == TrimRight(TrimLeft(t))

\* strings.ReplaceAll(t, " ", "-")
SpacesToDashes(t) == [i \in 1..Len(t) |-> IF t[i] = " " THEN "-" ELSE t[i]]

\* the components of a text that holds separators; empty components vanish
RECURSIVE SplitFrom(_, _, _)
SplitFrom(done, cur, rest) ==
    IF rest = <<>> THEN (IF cur = <<>> THEN done ELSE Append(done, cur))
    ELSE IF Head(rest) = "/"
         THEN SplitFrom(IF cur = <<>> THEN done ELSE Append(done, cur), <<>>, Tail(rest))
         ELSE SplitFrom(done, Append(cur, Head(rest)), Tail(rest))

\* filepath.Join(basePath, text) for a text that may hold separators
JoinText(base, t) == Abs(base \o SplitFrom(<<>>, <<>>, t))

\* fmt.Sprintf("%d", i) for i >= 0
RECURSIVE Digits(_)
Digits(i) ==
    LET DigitChar(d) == <<"0", "1", "2", "3", "4", "5", "6", "7", "8", "9">>[d + 1] IN
    IF i < 10 THEN <<DigitChar(i)>> ELSE Append(Digits(i \div 10), DigitChar(i % 10))

\* os.Stat: "ok", "ENOENT" (os.IsNotExist) or "ENOTDIR" (a component is a file)
RECURSIVE StatFrom(_, _, _)
StatFrom(f, cur, rest) ==
    IF rest = <<>> THEN "ok"
    ELSE LET next == Append(cur, Head(rest)) IN
         IF cur # <<>> /\ f[cur].kind = "file" THEN "ENOTDIR"
         ELSE IF next \notin DOMAIN f THEN "ENOENT"
         ELSE IF f[next].kind = "link"
              THEN LET r == EvalSymlinks(f, next) IN
                   IF ~r.ok THEN "ENOENT" ELSE StatFrom(f, r.path, Tail(rest))
              ELSE StatFrom(f, next, Tail(rest))

Stat(f, p) == StatFrom(f, <<>>, p)

\* uniqueName: [hang, name]; the loop ends only on a candidate whose Stat
\* says not-exist, so it never ends when Stat fails otherwise on every one
RECURSIVE UniqueFrom(_, _, _, _, _)
UniqueFrom(f, basePath, name, candidate, i) ==
    LET st == Stat(f, JoinText(basePath, candidate)) IN
    IF st = "ENOENT" THEN [hang |-> FALSE, name |-> candidate]
    ELSE IF st = "ENOTDIR" THEN [hang |-> TRUE, name |-> candidate]
    ELSE UniqueFrom(f, basePath, name, name \o <<"-">> \o Digits(i), i + 1)

UniqueName(f, basePath, name) == UniqueFrom(f, basePath, name, name, 2)

RECURSIVE MaxMtime(_)
MaxMtime(paths) ==
    IF paths = {} THEN 0
    ELSE LET p == CHOOSE q \in paths : TRUE IN Max(p[2], MaxMtime(paths \ {p}))

\* the modification time of a directory made now: later than every other
NowIn(f) == 1 + MaxMtime({<<q, f[q].mtime>> : q \in DOMAIN f})

\* os.MkdirAll: the path and the missing ones above it become directories
MkdirAll(f, p) ==
    LET new == {SubSeq(p, 1, n) : n \in 1..Len(p)} \ DOMAIN f IN
    [q \in DOMAIN f \cup new |-> IF q \in DOMAIN f THEN f[q] ELSE Dir(NowIn(f))]

\* mutant of Create: the date-prefixed name is used as it is
CreateWithoutUniqueName(f, basePath, name) ==
    LET fullPath == JoinText(basePath, Today \o <<"-">> \o SpacesToDashes(TrimSpace(name)))
    IN  [hang |-> FALSE, path |-> fullPath, fs |-> MkdirAll(f, fullPath)]

\* workspace.Create(basePath, name): [hang, path, fs]
Create(f, basePath, name) ==
    LET clean == SpacesToDashes(TrimSpace(name))
        dirName == Today \o <<"-">> \o clean
        u == UniqueName(f, basePath, dirName)
        fullPath == JoinText(basePath, u.name)
    IN  IF u.hang THEN [hang |-> TRUE, path |-> <<>>, fs |-> f]
        ELSE [hang |-> FALSE, path |-> fullPath, fs |-> MkdirAll(f, fullPath)]

-----------------------------------------------------------------------------
(* package shell: a script is the sequence of its commands *)

Command(op, path) == [op |-> op, path |-> path]

AddCD(s, path) == Append(s, Command("cd", path))
AddMkdir(s, path) == Append(s, Command("mkdir -p", path))
AddTouch(s, path) == Append(s, Command("touch", path))
AddEcho(s, path) == Append(s, Command("echo", path))

\* Script.AddRm: "test -d path && rm -rf path"; basePath is not looked at
AddRm(s, path, basePath) == Append(s, Command("rm -rf", path))

\* mutant of Chained: the commands follow each other line by line, unchained
ChainedUngated(commands) == commands

RECURSIVE Chained(_)
Chained(commands) ==
    IF Len(commands) = 1 THEN commands
    ELSE <<Head(commands), Command("&&", <<>>)>> \o Chained(Tail(commands))

\* Script.String: the text of the script as the sequence of its parts
String(s) == IF Len(s) = 0 THEN <<>> ELSE <<Command("#", <<>>)>> \o Chained(s)

\* the shell evaluating the parts of r from the i-th on: the positions of the
\* commands it runs, when the commands at the positions in fails fail; status
\* is the success of the latest command, gated is set after "&&"
RECURSIVE RunFrom(_, _, _, _, _)
RunFrom(r, i, status, gated, fails) ==
    IF i > Len(r) THEN {}
    ELSE IF r[i].op = "#" THEN RunFrom(r, i + 1, status, gated, fails)
    ELSE IF r[i].op = "&&" THEN RunFrom(r, i + 1, status, TRUE, fails)
    ELSE IF gated /\ ~status THEN RunFrom(r, i + 1, FALSE, FALSE, fails)
    ELSE {i} \cup RunFrom(r, i + 1, i \notin fails, FALSE, fails)

\* mutant of ShellCD: the directory is entered first and touched after
ShellCDBeforeTouch(path) == AddTouch(AddEcho(AddCD(<<>>, path), path), path)

\* shell.CD
ShellCD(path) == AddCD(AddEcho(AddTouch(<<>>, path), path), path)

\* shell.MkdirCD
ShellMkdirCD(path) == AddCD(AddEcho(AddTouch(AddMkdir(<<>>, path), path), path), path)

RECURSIVE AddRms(_, _, _)
AddRms(s, paths, basePath) ==
    IF paths = <<>> THEN s
    ELSE AddRms(AddRm(s, Head(paths), basePath), Tail(paths), basePath)

\* shell.Delete
ShellDelete(paths, basePath) ==
    Append(AddRms(AddCD(<<>>, basePath), paths, basePath), Command("stay", <<>>))

-----------------------------------------------------------------------------
(* package workspace: git references (clone.go) *)

DotGit == <<".", "g", "i", "t">>
GitAt == <<"g", "i", "t", "@">>
HttpScheme == <<"h", "t", "t", "p", ":", "/", "/">>
HttpsScheme == <<"h", "t", "t", "p", "s", ":", "/", "/">>
GithubCom == <<"g", "i", "t", "h", "u", "b", ".", "c", "o", "m">>
GitlabCom == <<"g", "i", "t", "l", "a", "b", ".", "c", "o", "m">>

\* strings.HasSuffix
HasSuffix(s, suf) ==
    Len(suf) <= Len(s) /\ SubSeq(s, Len(s) - Len(suf) + 1, Len(s)) = suf

\* strings.TrimSuffix: one occurrence of the suffix is removed
TrimSuffix(s, suf) == IF HasSuffix(s, suf) THEN SubSeq(s, 1, Len(s) - Len(suf)) ELSE s

\* strings.Contains
Contains(s, sub) ==
    \E i \in 0..(Len(s) - Len(sub)) : SubSeq(s, i + 1, i + Len(sub)) = sub

\* strings.IndexByte + 1: the position of the first c in s, 0 when there is none
IndexOf(s, c) ==
    IF \E i \in 1..Len(s) : s[i] = c
    THEN CHOOSE i \in 1..Len(s) : s[i] = c /\ \A j \in 1..(i - 1) : s[j] # c
    ELSE 0

\* the character class [^c]* : no c in s
Without(s, c) == \A i \in 1..Len(s) : s[i] # c

\* ParsedURL, and the failure "unable to parse git URL"
ParsedURL(host, user, repo) == [ok |-> TRUE, Host |-> host, User |-> user, Repo |-> repo]

NoParse == [ok |-> FALSE, Host |-> <<>>, User |-> <<>>, Repo |-> <<>>]

\* the tail "([^/]+)/([^/]+)$" of both patterns, on the text after the host
MatchUserRepo(host, p) ==
    LET j == IndexOf(p, "/") IN
    IF j < 2 \/ j = Len(p) \/ ~Without(SubSeq(p, j + 1, Len(p)), "/") THEN NoParse
    ELSE ParsedURL(host, SubSeq(p, 1, j - 1), SubSeq(p, j + 1, Len(p)))

\* sshPattern: ^git@([^:]+):([^/]+)/([^/]+)$
MatchSSH(s) ==
    IF ~HasPrefix(s, GitAt) THEN NoParse
    ELSE LET a == SubSeq(s, Len(GitAt) + 1, Len(s))
             i == IndexOf(a, ":")
         IN  IF i < 2 THEN NoParse
             ELSE MatchUserRepo(SubSeq(a, 1, i - 1), SubSeq(a, i + 1, Len(a)))

\* httpsPattern: ^https?://([^/]+)/([^/]+)/([^/]+)$
MatchHTTPS(s) ==
    LET scheme == IF HasPrefix(s, HttpsScheme) THEN HttpsScheme
                  ELSE IF HasPrefix(s, HttpScheme) THEN HttpScheme ELSE <<>>
        a == SubSeq(s, Len(scheme) + 1, Len(s))
        i == IndexOf(a, "/")
    IN  IF scheme = <<>> \/ i < 2 THEN NoParse
        ELSE MatchUserRepo(SubSeq(a, 1, i - 1), SubSeq(a, i + 1, Len(a)))

\* workspace.ParseGitURL
ParseGitURL(url) ==
    LET s == TrimSuffix(url, DotGit)
        m == MatchSSH(s)
    IN  IF m.ok THEN m ELSE MatchHTTPS(s)

\* IsGitURL without the test of the ".git" ending
IsGitURLByPrefixOrHost(s) ==
    \/ HasPrefix(s, GitAt)
    \/ HasPrefix(s, HttpsScheme) \/ HasPrefix(s, HttpScheme)
    \/ Contains(s, GithubCom) \/ Contains(s, GitlabCom)

\* workspace.IsGitURL
IsGitURL(s) ==
    \/ HasPrefix(s, GitAt)
    \/ HasPrefix(s, HttpsScheme) \/ HasPrefix(s, HttpScheme)
    \/ HasSuffix(s, DotGit)
    \/ Contains(s, GithubCom) \/ Contains(s, GitlabCom)

\* workspace.CloneDirName: [ok, name]
CloneDirName(url) ==
    LET parsed == ParseGitURL(url) IN
    IF ~parsed.ok THEN [ok |-> FALSE, name |-> <<>>]
    ELSE [ok |-> TRUE, name |-> Today \o <<"-">> \o parsed.User \o <<"-">> \o parsed.Repo]

\* workspace.CloneScript: [ok, hang, path, url]
CloneScript(f, basePath, url) ==
    LET d == CloneDirName(url) IN
    IF ~d.ok THEN [ok |-> FALSE, hang |-> FALSE, path |-> <<>>, url |-> <<>>]
    ELSE LET u == UniqueName(f, basePath, d.name) IN
         [ok |-> TRUE, hang |-> u.hang, path |-> Join(basePath, u.name), url |-> url]

-----------------------------------------------------------------------------
(* Calls of single functions *)

NoCall == [fn |-> "none", arg |-> <<>>]

NoResult == [kind |-> "none"]

-----------------------------------------------------------------------------
(* package tui: the Model and its Update *)

NoAction ==
    [Type |-> "nil", Path |-> <<>>, Name |-> <<>>, Paths |-> <<>>, BaseDir |-> <<>>]

\* &Action{Type: ActionCancel}
ActionCancel == [NoAction EXCEPT !.Type = "ActionCancel"]

\* &Action{Type: ActionCD, Path: path, BaseDir: base}
ActionCD(path, base) ==
    [NoAction EXCEPT !.Type = "ActionCD", !.Path = path, !.BaseDir = base]

\* &Action{Type: ActionCreate, Path: name, BaseDir: base}; Name is the Path field
ActionCreate(name, base) ==
    [NoAction EXCEPT !.Type = "ActionCreate", !.Name = name, !.BaseDir = base]

\* &Action{Type: ActionDelete, Paths: paths, BaseDir: base}
ActionDelete(paths, base) ==
    [NoAction EXCEPT !.Type = "ActionDelete", !.Paths = paths, !.BaseDir = base]

\* the key events of the model: named keys and single characters
Keys ==
    {"ctrl+c", "esc", "enter", "ctrl+d", "ctrl+n", "up", "down", "backspace", "tab"}
        \cup Runes

\* the event loop hands a message to Update: while the program runs, and for
\* the messages already queued when tea.Quit was returned, until QuitMsg
CanDeliver == phase = "running" \/ (phase = "quitting" /\ late < MaxLate)

\* Update returned command c
Returned(c) ==
    /\ cmd' = c
    /\ phase' = IF c = "quit" /\ phase = "running" THEN "quitting" ELSE phase
    /\ late' = IF phase = "quitting" THEN late + 1 ELSE late

\* mutant of handleSelect: the filter text is looked at before the selection
handleSelectFilterFirst ==
    IF FilterValue(list) # <<>>
    THEN /\ action' = ActionCreate(FilterValue(list), BasePath)
         /\ Returned("quit")
         /\ UNCHANGED <<state, list, deleteTarget, deleteConfirm, pendingFilter>>
    ELSE IF ~HasSelection(list)
    THEN /\ Returned("nil")
         /\ UNCHANGED <<state, list, deleteTarget, deleteConfirm, action, pendingFilter>>
    ELSE /\ action' = ActionCD(SelectedItem(list).Path, BasePath)
         /\ Returned("quit")
         /\ UNCHANGED <<state, list, deleteTarget, deleteConfirm, pendingFilter>>

\* Model.handleSelect
handleSelect ==
    IF ~HasSelection(list)
    THEN IF FilterValue(list) # <<>>
         THEN /\ action' = ActionCreate(FilterValue(list), BasePath)
              /\ Returned("quit")
              /\ UNCHANGED <<state, list, deleteTarget, deleteConfirm, pendingFilter>>
         ELSE /\ Returned("nil")
              /\ UNCHANGED <<state, list, deleteTarget, deleteConfirm, action,
                             pendingFilter>>
    ELSE /\ action' = ActionCD(SelectedItem(list).Path, BasePath)
         /\ Returned("quit")
         /\ UNCHANGED <<state, list, deleteTarget, deleteConfirm, pendingFilter>>

\* mutant of handleCreateNew: a filter text that looks like a git reference
\* is emitted as a Clone
handleCreateNewClonesReferences ==
    IF FilterValue(list) = <<>>
    THEN /\ Returned("nil")
         /\ UNCHANGED <<state, list, deleteTarget, deleteConfirm, action, pendingFilter>>
    ELSE /\ action' = [ActionCreate(FilterValue(list), BasePath) EXCEPT
                          !.Type = IF IsGitURL(FilterValue(list)) THEN "ActionClone"
                                   ELSE @]
         /\ Returned("quit")
         /\ UNCHANGED <<state, list, deleteTarget, deleteConfirm, pendingFilter>>

\* mutant of handleCreateNew: the selected entry wins over the filter text
handleCreateNewUnlessSelected ==
    IF FilterValue(list) = <<>> \/ HasSelection(list)
    THEN /\ Returned("nil")
         /\ UNCHANGED <<state, list, deleteTarget, deleteConfirm, action, pendingFilter>>
    ELSE /\ action' = ActionCreate(FilterValue(list), BasePath)
         /\ Returned("quit")
         /\ UNCHANGED <<state, list, deleteTarget, deleteConfirm, pendingFilter>>

\* Model.handleCreateNew
handleCreateNew ==
    IF FilterValue(list) = <<>>
    THEN /\ Returned("nil")
         /\ UNCHANGED <<state, list, deleteTarget, deleteConfirm, action, pendingFilter>>
    ELSE /\ action' = ActionCreate(FilterValue(list), BasePath)
         /\ Returned("quit")
         /\ UNCHANGED <<state, list, deleteTarget, deleteConfirm, pendingFilter>>

\* mutant of handleDelete: the first visible entry is captured, not the selected
handleDeleteFirstVisible ==
    IF ~HasSelection(list)
    THEN /\ Returned("nil")
         /\ UNCHANGED <<state, list, deleteTarget, deleteConfirm, action, pendingFilter>>
    ELSE /\ deleteTarget' = VisibleItems(list)[1].Path
         /\ deleteConfirm' = <<>>
         /\ state' = "StateDeleteConfirm"
         /\ Returned("nil")
         /\ UNCHANGED <<list, action, pendingFilter>>

\* Model.handleDelete
handleDelete ==
    IF ~HasSelection(list)
    THEN /\ Returned("nil")
         /\ UNCHANGED <<state, list, deleteTarget, deleteConfirm, action, pendingFilter>>
    ELSE /\ deleteTarget' = SelectedItem(list).Path
         /\ deleteConfirm' = <<>>
         /\ state' = "StateDeleteConfirm"
         /\ Returned("nil")
         /\ UNCHANGED <<list, action, pendingFilter>>

\* mutant of cancelConfirm: Escape leaves deleteTarget set
cancelConfirmKeepsTarget ==
    /\ state' = "StateSelector"
    /\ deleteConfirm' = <<>>
    /\ Returned("nil")
    /\ UNCHANGED <<list, action, pendingFilter, deleteTarget>>

\* handleDeleteConfirmKey, case tea.KeyEscape
cancelConfirm ==
    /\ state' = "StateSelector"
    /\ deleteTarget' = <<>>
    /\ deleteConfirm' = <<>>
    /\ Returned("nil")
    /\ UNCHANGED <<list, action, pendingFilter>>

\* mutant of ConfirmMatches: the text is compared ignoring case
ConfirmMatchesAnyCase(text) ==
    /\ Len(text) = Len(YES)
    /\ \A i \in 1..Len(YES) : Lower(text[i]) = Lower(YES[i])

\* handleDeleteConfirmKey, case tea.KeyEnter: the test of the typed text
ConfirmMatches(text) == text = YES

\* mutant of wrongConfirmation: the typed text survives the refusal
wrongConfirmationKeepsText ==
    /\ state' = "StateSelector"
    /\ deleteTarget' = <<>>
    /\ Returned("nil")
    /\ UNCHANGED <<list, action, pendingFilter, deleteConfirm>>

\* handleDeleteConfirmKey, case tea.KeyEnter: "Wrong confirmation, go back"
wrongConfirmation ==
    /\ state' = "StateSelector"
    /\ deleteTarget' = <<>>
    /\ deleteConfirm' = <<>>
    /\ Returned("nil")
    /\ UNCHANGED <<list, action, pendingFilter>>

\* Model.handleDeleteConfirmKey
handleDeleteConfirmKey(k) ==
    IF k = "esc" THEN cancelConfirm
    ELSE IF k = "enter"
    THEN IF ConfirmMatches(deleteConfirm)
         THEN /\ action' = ActionDelete(<<deleteTarget>>, BasePath)
              /\ Returned("quit")
              /\ UNCHANGED <<state, list, deleteTarget, deleteConfirm, pendingFilter>>
         ELSE wrongConfirmation
    ELSE IF k = "backspace"
    THEN /\ deleteConfirm' = IF Len(deleteConfirm) > 0
                             THEN SubSeq(deleteConfirm, 1, Len(deleteConfirm) - 1)
                             ELSE deleteConfirm
         /\ Returned("nil")
         /\ UNCHANGED <<state, list, deleteTarget, action, pendingFilter>>
    ELSE IF k \in Runes
    THEN /\ deleteConfirm' = Append(deleteConfirm, k)
         /\ Returned("nil")
         /\ UNCHANGED <<state, list, deleteTarget, action, pendingFilter>>
    ELSE /\ Returned("nil")
         /\ UNCHANGED <<state, list, deleteTarget, deleteConfirm, action, pendingFilter>>

\* m.list, cmd = m.list.Update(msg) on a key
passToList(k) ==
    LET r == ListUpdateKey(list, k) IN
    /\ list' = r.l
    /\ pendingFilter' = IF r.cmd = "filter"
                        THEN pendingFilter \cup {FilterItems(r.l.items, r.l.filterValue)}
                        ELSE pendingFilter
    /\ Returned(r.cmd)
    /\ UNCHANGED <<state, deleteTarget, deleteConfirm, action>>

\* mutant of EscGoesToList: an applied filter sends Escape to the list too
EscGoesToListWhenFiltered(l) == FilterState(l) # "Unfiltered"

\* handleKey, case "esc": "Let list handle esc (exits filter mode)"
EscGoesToList(l) == FilterState(l) = "Filtering"

\* mutant of handleKey: the navigation keys go to the list before the state
\* is looked at
handleKeyListFirst(k) ==
    IF k \in {"up", "down"} THEN passToList(k)
    ELSE IF state = "StateDeleteConfirm" THEN handleDeleteConfirmKey(k)
    ELSE IF k = "ctrl+c"
    THEN /\ action' = ActionCancel
         /\ Returned("quit")
         /\ UNCHANGED <<state, list, deleteTarget, deleteConfirm, pendingFilter>>
    ELSE IF k = "esc"
    THEN IF FilterState(list) = "Filtering"
         THEN passToList(k)
         ELSE /\ action' = ActionCancel
              /\ Returned("quit")
              /\ UNCHANGED <<state, list, deleteTarget, deleteConfirm, pendingFilter>>
    ELSE IF k = "enter" THEN handleSelect
    ELSE IF k = "ctrl+d" THEN handleDelete
    ELSE IF k = "ctrl+n" THEN handleCreateNew
    ELSE passToList(k)

\* Model.handleKey
handleKey(k) ==
    IF state = "StateDeleteConfirm" THEN handleDeleteConfirmKey(k)
    ELSE IF k = "ctrl+c"
    THEN /\ action' = ActionCancel
         /\ Returned("quit")
         /\ UNCHANGED <<state, list, deleteTarget, deleteConfirm, pendingFilter>>
    ELSE IF k = "esc"
    THEN IF EscGoesToList(list)
         THEN passToList(k)
         ELSE /\ action' = ActionCancel
              /\ Returned("quit")
              /\ UNCHANGED <<state, list, deleteTarget, deleteConfirm, pendingFilter>>
    ELSE IF k = "enter" THEN handleSelect
    ELSE IF k = "ctrl+d" THEN handleDelete
    ELSE IF k = "ctrl+n" THEN handleCreateNew
    ELSE passToList(k)

\* the texts and the commands in flight stay within the model's bounds
KeyWithinBounds(k) ==
    /\ k \in Runes =>
        /\ state = "StateDeleteConfirm"
              => (k \in ConfirmRunes /\ Len(deleteConfirm) < MaxConfirmLen)
        /\ (state = "StateSelector" /\ FilterState(list) = "Filtering")
              => (k \in FilterRunes /\ Len(FilterValue(list)) < MaxFilterLen)
    /\ (state = "StateSelector" /\ ListUpdateKey(list, k).cmd = "filter")
          => Cardinality(pendingFilter) < MaxPending

\* the history variable after key k: set by a refused confirmation, kept by
\* the keys of the retry, forgotten on every other key
Retried(k) ==
    IF state = "StateDeleteConfirm"
    THEN IF k = "enter"
         THEN (IF deleteConfirm # YES THEN deleteTarget ELSE rejected)
         ELSE IF k \in Runes /\ HasPrefix(YES, Append(deleteConfirm, k))
              THEN rejected
              ELSE <<>>
    ELSE IF k = "ctrl+d" /\ HasSelection(list) /\ SelectedItem(list).Path = rejected
         THEN rejected
         ELSE <<>>

\* Update, case tea.KeyMsg
UpdateKey(k) ==
    /\ CanDeliver
    /\ KeyWithinBounds(k)
    /\ handleKey(k)
    /\ rejected' = Retried(k)
    /\ typed' = typed
    /\ UNCHANGED <<fs, loader, loadMsg, entries, size, err, out>>
    /\ UNCHANGED <<deleteVars, callVars, initialQuery>>

\* Update, case tea.WindowSizeMsg
UpdateWindowSize ==
    /\ CanDeliver
    /\ size' = <<80, 24>>
    /\ Returned("nil")
    /\ UNCHANGED <<fs, loader, loadMsg, pendingFilter, state, list, entries,
                   deleteTarget, deleteConfirm, action, err, out>>
    /\ UNCHANGED <<deleteVars, callVars, rejected, typed, initialQuery>>

\* Model.loadEntries, the command Init returns, run by the program
loadEntries ==
    /\ phase \in {"running", "quitting"}
    /\ loader = "started"
    /\ \E r \in Scan(fs, BasePath) :
          loadMsg' = IF r.err # "nil"
                     THEN [type |-> "errMsg", err |-> r.err, entries |-> <<>>]
                     ELSE [type |-> "entriesLoadedMsg", err |-> "nil",
                           entries |-> r.entries]
    /\ loader' = "sent"
    /\ UNCHANGED <<fs, phase, pendingFilter, late, state, list, entries, size,
                   deleteTarget, deleteConfirm, action, err, cmd, out>>
    /\ UNCHANGED <<deleteVars, callVars, rejected, typed, initialQuery>>

\* mutant of UpdateEntriesLoaded: the handler returns m.loadEntries again
UpdateEntriesLoadedRescans ==
    /\ CanDeliver
    /\ loader = "sent"
    /\ loadMsg.type = "entriesLoadedMsg"
    /\ entries' = loadMsg.entries
    /\ list' = SetItems(list, loadMsg.entries)
    /\ loader' = "started"
    /\ Returned("nil")
    /\ UNCHANGED <<fs, loadMsg, pendingFilter, state, size, deleteTarget,
                   deleteConfirm, action, err, out>>
    /\ UNCHANGED <<deleteVars, callVars, rejected, typed, initialQuery>>

\* Update, case entriesLoadedMsg
UpdateEntriesLoaded ==
    /\ CanDeliver
    /\ loader = "sent"
    /\ loadMsg.type = "entriesLoadedMsg"
    /\ entries' = loadMsg.entries
    /\ list' = SetItems(list, loadMsg.entries)
    /\ loader' = "delivered"
    /\ Returned("nil")
    /\ UNCHANGED <<fs, loadMsg, pendingFilter, state, size, deleteTarget,
                   deleteConfirm, action, err, out>>
    /\ UNCHANGED <<deleteVars, callVars, rejected, typed, initialQuery>>

\* Update, case errMsg
UpdateErr ==
    /\ CanDeliver
    /\ loader = "sent"
    /\ loadMsg.type = "errMsg"
    /\ err' = loadMsg.err
    /\ loader' = "delivered"
    /\ Returned("quit")
    /\ UNCHANGED <<fs, loadMsg, pendingFilter, state, list, entries, size,
                   deleteTarget, deleteConfirm, action, out>>
    /\ UNCHANGED <<deleteVars, callVars, rejected, typed, initialQuery>>

\* Update, default case: the list's FilterMatchesMsg carrying the matches v
UpdateFilterMatches(v) ==
    /\ CanDeliver
    /\ v \in pendingFilter
    /\ pendingFilter' = pendingFilter \ {v}
    /\ list' = [list EXCEPT !.filteredItems = v]
    /\ Returned("nil")
    /\ UNCHANGED <<fs, loader, loadMsg, state, entries, size, deleteTarget,
                   deleteConfirm, action, err, out>>
    /\ UNCHANGED <<deleteVars, callVars, rejected, typed, initialQuery>>

\* the program's event loop takes QuitMsg: p.Run() returns the final model
QuitMsg ==
    /\ phase = "quitting"
    /\ phase' = "exited"
    /\ UNCHANGED <<fs, loader, loadMsg, pendingFilter, late, state, list, entries,
                   size, deleteTarget, deleteConfirm, action, err, cmd, out>>
    /\ UNCHANGED <<deleteVars, callVars, rejected, typed, initialQuery>>

-----------------------------------------------------------------------------
(* package cli: runSelector after p.Run(), and outputScript *)

NoOut == [kind |-> "none", script |-> <<>>]

\* outputScript(action, basePath): [out, fs]
outputScript(f, a, basePath) ==
    IF a.Type = "ActionCD"
        THEN [out |-> [kind |-> "script", script |-> ShellCD(a.Path)], fs |-> f]
    ELSE IF a.Type = "ActionCreate"
        THEN LET c == Create(f, basePath, a.Name) IN
             IF c.hang THEN [out |-> [kind |-> "hang", script |-> <<>>], fs |-> f]
             ELSE [out |-> [kind |-> "script", script |-> ShellMkdirCD(c.path)],
                   fs |-> c.fs]
    ELSE IF a.Type = "ActionDelete"
        THEN [out |-> [kind |-> "script", script |-> ShellDelete(a.Paths, basePath)],
              fs |-> f]
    ELSE [out |-> [kind |-> "cancelled", script |-> <<>>], fs |-> f]

\* runSelector, from the return of p.Run() on
runSelectorFinish ==
    /\ phase = "exited"
    /\ phase' = "done"
    /\ IF err # "nil"
       THEN out' = [kind |-> "error", script |-> <<>>] /\ fs' = fs
       ELSE IF action = NoAction
       THEN out' = [kind |-> "cancelled", script |-> <<>>] /\ fs' = fs
       ELSE LET r == outputScript(fs, action, BasePath) IN
            out' = r.out /\ fs' = r.fs
    /\ UNCHANGED <<loader, loadMsg, pendingFilter, late, state, list, entries, size,
                   deleteTarget, deleteConfirm, action, err, cmd>>
    /\ UNCHANGED <<deleteVars, callVars, rejected, typed, initialQuery>>

\* another process replaces the directory picked for deletion by a symbolic
\* link to a directory outside the base, after the scan that listed it
ReplaceByLink ==
    /\ phase = "exited"
    /\ action.Type = "ActionDelete"
    /\ LET p == action.Paths[1] IN
       /\ p \in DOMAIN fs
       /\ fs[p].kind = "dir"
       /\ fs' = [q \in DOMAIN RemoveAll(fs, p) \cup {p} |->
                    IF q = p THEN Link(<<O>>) ELSE fs[q]]
    /\ UNCHANGED sessionVars
    /\ UNCHANGED <<deleteVars, callVars>>

-----------------------------------------------------------------------------
(* The selector session *)

FsTwo ==
    (<<B>> :> Dir(1)) @@ (<<B, YE>> :> Dir(3)) @@ (<<B, S>> :> Dir(2)) @@
    (<<B, HS>> :> Dir(4)) @@ (<<B, E>> :> File(5)) @@ (<<O>> :> Dir(1))

FsEmpty == (<<B>> :> Dir(1)) @@ (<<O>> :> Dir(1))

FsDenied == (<<B>> :> NoReadDir(1)) @@ (<<B, S>> :> Dir(2)) @@ (<<O>> :> Dir(1))

\* the base directory was removed after runExec made sure of it
FsMissing == (<<O>> :> Dir(1))

SessionFs == {FsTwo, FsEmpty, FsDenied, FsMissing}

\* tui.WithInitialQuery(q): the value it stores
WithInitialQuery(q) == SpacesToDashes(q)

\* tui.New(basePath, WithInitialQuery(q)) and the start of p.Run(); the list
\* is made empty and unfiltered, the stored query is not handed to it
New(q) ==
    /\ initialQuery = WithInitialQuery(q)
    /\ fs \in SessionFs
    /\ phase = "running"
    /\ loader = "started"
    /\ loadMsg = [type |-> "none", err |-> "nil", entries |-> <<>>]
    /\ pendingFilter = {}
    /\ late = 0
    /\ state = "StateSelector"
    /\ list = NewList
    /\ entries = <<>>
    /\ size = <<0, 0>>
    /\ deleteTarget = <<>>
    /\ deleteConfirm = <<>>
    /\ action = NoAction
    /\ err = "nil"
    /\ cmd = "nil"
    /\ out = NoOut
    /\ delBase = <<>>
    /\ delPath = <<>>
    /\ delResult = "none"
    /\ fsBefore = fs
    /\ call = NoCall
    /\ result = NoResult
    /\ procs = <<>>
    /\ rejected = <<>>
    /\ typed = <<>>

\* runSelector(basePath, ""): a session started without a query
Init == New(<<>>)

Next ==
    \/ \E k \in Keys : UpdateKey(k)
    \/ UpdateWindowSize
    \/ loadEntries
    \/ UpdateEntriesLoaded
    \/ UpdateErr
    \/ \E v \in pendingFilter : UpdateFilterMatches(v)
    \/ QuitMsg
    \/ ReplaceByLink
    \/ runSelectorFinish

Spec == Init /\ [][Next]_vars

-----------------------------------------------------------------------------
(* workspace.Delete called on its own, over filesystems with symbolic links *)

\* "/b/e" is a link to t (to itself: a loop); "/Y" is a link to the base;
\* "/be" is a sibling of the base whose name starts with the base's name
FsLinked(t) ==
    (<<B>> :> Dir(1)) @@ (<<B, YE>> :> Dir(3)) @@ (<<B, YE, S>> :> Dir(2)) @@
    (<<B, S>> :> Dir(2)) @@ (<<B, E>> :> Link(t)) @@ (<<O>> :> Dir(1)) @@
    (<<O, S>> :> Dir(1)) @@ (<<BX>> :> Dir(1)) @@ (<<LB>> :> Link(<<B>>))

InitDelete ==
    /\ fs \in {FsLinked(t) :
                  t \in {<<O>>, <<O, S>>, <<B, YE>>, <<BX>>, <<B>>, <<>>, <<B, E>>}}
    /\ phase = "done"
    /\ loader = "delivered"
    /\ loadMsg = [type |-> "none", err |-> "nil", entries |-> <<>>]
    /\ pendingFilter = {}
    /\ late = 0
    /\ state = "StateSelector"
    /\ list = NewList
    /\ entries = <<>>
    /\ size = <<0, 0>>
    /\ deleteTarget = <<>>
    /\ deleteConfirm = <<>>
    /\ action = NoAction
    /\ err = "nil"
    /\ cmd = "nil"
    /\ out = NoOut
    /\ delBase = <<>>
    /\ delPath = <<>>
    /\ delResult = "none"
    /\ fsBefore = fs
    /\ call = NoCall
    /\ result = NoResult
    /\ procs = <<>>
    /\ rejected = <<>>
    /\ typed = <<>>
    /\ initialQuery = <<>>

\* a call Delete(basePath, path)
DeleteCall(basePath, path) ==
    /\ LET r == Delete(fs, basePath, path) IN
       /\ delResult' = r.err
       /\ fs' = r.fs
    /\ fsBefore' = fs
    /\ delBase' = basePath
    /\ delPath' = path
    /\ UNCHANGED sessionVars
    /\ UNCHANGED callVars

NextDelete ==
    \E b \in {<<B>>, <<LB>>, <<B, YE>>, <<>>} :
        \E p \in {<<B, E>>, <<B, E, S>>, <<B, DotDot, O>>, <<B, YE>>, <<B, YE, S>>,
                  <<B>>, <<BX>>, <<O>>, <<LB, YE>>, <<B, S, DotDot>>, <<B, O>>,
                  <<B, S>>} :
            DeleteCall(b, p)

SpecDelete == InitDelete /\ [][NextDelete]_vars

-----------------------------------------------------------------------------
(* Git references given on the command line *)

\* Script.AddGitClone
AddGitClone(s, url, path) == Append(s, [op |-> "git clone", path |-> path, url |-> url])

\* shell.Clone; the echo of "Cloning <url>..." is the echo of the url
ShellClone(path, url) ==
    AddCD(AddEcho(AddTouch(AddGitClone(AddEcho(AddMkdir(<<>>, path), url), url, path),
                           path), path), path)

\* handleClone: what the command returns and prints
handleClone(f, basePath, url) ==
    LET c == CloneScript(f, basePath, url) IN
    IF ~c.ok THEN [kind |-> "error", script |-> <<>>]
    ELSE IF c.hang THEN [kind |-> "hang", script |-> <<>>]
    ELSE [kind |-> "script", script |-> ShellClone(c.path, c.url)]

\* args[0] of "try exec <arg>": a scheme, a host, ":" or "/", a user, "/", a
\* repository and an ending, each present, absent or misshapen; and the
\* arguments of the tests of clone.go that are of neither shape
Args ==
    {sc \o h \o sep \o u \o <<"/">> \o r \o x :
        sc \in {GitAt, HttpsScheme, HttpScheme, <<>>},
        h \in {<<"h">>, <<>>, <<"a", "/", "b">>, GithubCom},
        sep \in {<<":">>, <<"/">>},
        u \in {<<"u">>, <<>>, <<"a", ":", "b">>},
        r \in {<<"r">>, <<>>, <<"r", "/", "x">>, DotGit},
        x \in {<<>>, DotGit}}
    \cup {<<"n", "o", "t", "-", "a", "-", "u", "r", "l">>,
          <<"/", "p", "a", "t", "h", "/", "t", "o", "/", "r", "e", "p", "o">>,
          <<"s", "o", "m", "e", "t", "h", "i", "n", "g", ".", "g", "i", "t">>,
          <<"m", "y", "-", "p", "r", "o", "j", "e", "c", "t">>,
          <<>>}

InitUrl ==
    /\ fs \in {FsEmpty, FsTwo}
    /\ phase = "done"
    /\ loader = "delivered"
    /\ loadMsg = [type |-> "none", err |-> "nil", entries |-> <<>>]
    /\ pendingFilter = {}
    /\ late = 0
    /\ state = "StateSelector"
    /\ list = NewList
    /\ entries = <<>>
    /\ size = <<0, 0>>
    /\ deleteTarget = <<>>
    /\ deleteConfirm = <<>>
    /\ action = NoAction
    /\ err = "nil"
    /\ cmd = "nil"
    /\ out = NoOut
    /\ delBase = <<>>
    /\ delPath = <<>>
    /\ delResult = "none"
    /\ fsBefore = fs
    /\ call = NoCall
    /\ result = NoResult
    /\ procs = <<>>
    /\ rejected = <<>>
    /\ typed = <<>>
    /\ initialQuery = <<>>

\* everything but the record of the call
exceptCall ==
    <<fs, phase, loader, loadMsg, pendingFilter, late, state, list, entries, size,
      deleteTarget, deleteConfirm, action, err, cmd, out, rejected, typed,
      initialQuery, procs>>

\* a call ParseGitURL(url)
ParseGitURLCall(url) ==
    /\ call = NoCall
    /\ call' = [fn |-> "ParseGitURL", arg |-> url]
    /\ result' = ParseGitURL(url)
    /\ UNCHANGED exceptCall
    /\ UNCHANGED deleteVars

\* a call IsGitURL(s)
IsGitURLCall(s) ==
    /\ call = NoCall
    /\ call' = [fn |-> "IsGitURL", arg |-> s]
    /\ result' = [kind |-> "bool", value |-> IsGitURL(s)]
    /\ UNCHANGED exceptCall
    /\ UNCHANGED deleteVars

\* runExec with one argument, up to the start of the selector: a git reference
\* goes to handleClone, anything else is the query of runSelector
runExec(arg) ==
    /\ call = NoCall
    /\ call' = [fn |-> "runExec", arg |-> arg]
    /\ fs' = MkdirAll(fs, BasePath)
    /\ IF IsGitURL(arg)
       THEN LET r == handleClone(fs', BasePath, arg) IN
            /\ result' = [kind |-> IF r.kind = "script" THEN "clone" ELSE r.kind,
                          query |-> <<>>]
            /\ out' = r
            /\ initialQuery' = initialQuery
       ELSE /\ result' = [kind |-> "selector", query |-> arg]
            /\ out' = out
            /\ initialQuery' = WithInitialQuery(arg)
    /\ UNCHANGED <<phase, loader, loadMsg, pendingFilter, late, state, list, entries,
                   size, deleteTarget, deleteConfirm, action, err, cmd, rejected,
                   typed, procs>>
    /\ UNCHANGED deleteVars

NextUrl ==
    \E a \in Args : ParseGitURLCall(a) \/ IsGitURLCall(a) \/ runExec(a)

SpecUrl == InitUrl /\ [][NextUrl]_vars

-----------------------------------------------------------------------------
(* Calls of workspace.Create *)

\* most paths of a filesystem on which Create is still called
MaxPaths == 6

TodayE == Today \o <<"-", "e">>
\* a base directory where the names <today>-e and <today>-e-2 are free or taken
FsTaken(k1, k2) ==
    LET node(k) == IF k = "dir" THEN Dir(1) ELSE File(1) IN
    [p \in {<<B>>} \cup (IF k1 = "none" THEN {} ELSE {<<B, TodayE>>})
                   \cup (IF k2 = "none" THEN {} ELSE {<<B, TodayE \o <<"-", "2">>>>}) |->
        IF p = <<B>> THEN Dir(1) ELSE IF p = <<B, TodayE>> THEN node(k1) ELSE node(k2)]

\* ... or where the base path itself is a file
InitCreate ==
    /\ fs \in {FsTaken(k1, k2) : k1 \in {"none", "dir", "file"}, k2 \in {"none", "dir"}}
                \cup {<<B>> :> File(1)}
    /\ phase = "done"
    /\ loader = "delivered"
    /\ loadMsg = [type |-> "none", err |-> "nil", entries |-> <<>>]
    /\ pendingFilter = {}
    /\ late = 0
    /\ state = "StateSelector"
    /\ list = NewList
    /\ entries = <<>>
    /\ size = <<0, 0>>
    /\ deleteTarget = <<>>
    /\ deleteConfirm = <<>>
    /\ action = NoAction
    /\ err = "nil"
    /\ cmd = "nil"
    /\ out = NoOut
    /\ delBase = <<>>
    /\ delPath = <<>>
    /\ delResult = "none"
    /\ fsBefore = fs
    /\ call = NoCall
    /\ result = NoResult
    /\ procs = <<>>
    /\ rejected = <<>>
    /\ typed = <<>>
    /\ initialQuery = <<>>

\* a call Create(BasePath, name); fsBefore is the filesystem it found
CreateCall(name) ==
    /\ Cardinality(DOMAIN fs) < MaxPaths
    /\ LET c == Create(fs, BasePath, name) IN
       /\ ~c.hang
       /\ call' = [fn |-> "Create", arg |-> name]
       /\ result' = [kind |-> "path", path |-> c.path]
       /\ fs' = c.fs
       /\ fsBefore' = fs
    /\ UNCHANGED <<phase, loader, loadMsg, pendingFilter, late, state, list, entries,
                   size, deleteTarget, deleteConfirm, action, err, cmd, out, rejected,
                   typed, initialQuery, procs>>
    /\ UNCHANGED <<delBase, delPath, delResult>>

\* the raw names given to Create
NextCreate ==
    \E name \in {<<"e">>, <<" ", "e", " ">>, <<"e", " ", "s">>} : CreateCall(name)

SpecCreate == InitCreate /\ [][NextCreate]_vars

-----------------------------------------------------------------------------
(* Calls of Create and CloneScript side by side, one system call at a time *)

\* most calls in progress side by side
MaxCreators == 2

\* most values of the loop counter i of uniqueName that are followed
MaxTries == 5

\* Create(BasePath, rawName) up to its call of uniqueName: the call becomes
\* the next entry of procs, with the locals name, candidate and i of
\* uniqueName, and before, the paths that existed when it began
CreateBegin(rawName) ==
    /\ Len(procs) < MaxCreators
    /\ LET dirName == Today \o <<"-">> \o SpacesToDashes(TrimSpace(rawName)) IN
       procs' = Append(procs, [fn |-> "Create", name |-> dirName, candidate |-> dirName,
                               i |-> 2, pc |-> "Stat", path |-> <<>>,
                               before |-> DOMAIN fs])
    /\ UNCHANGED <<fs, sessionVars, deleteVars, call, result>>

\* CloneScript(BasePath, url) up to its call of uniqueName
CloneScriptBegin(url) ==
    /\ Len(procs) < MaxCreators
    /\ LET d == CloneDirName(url) IN
       /\ d.ok
       /\ procs' = Append(procs, [fn |-> "CloneScript", name |-> d.name,
                                  candidate |-> d.name, i |-> 2, pc |-> "Stat",
                                  path |-> <<>>, before |-> DOMAIN fs])
    /\ UNCHANGED <<fs, sessionVars, deleteVars, call, result>>

\* one turn of the loop of uniqueName in the p-th call: os.Stat of the
\* candidate; not-exist returns it (and CloneScript returns with it), anything
\* else moves on to the next candidate
uniqueNameStat(p) ==
    /\ procs[p].pc = "Stat"
    /\ LET c == procs[p]
           st == Stat(fs, JoinText(BasePath, c.candidate))
       IN  IF st = "ENOENT"
           THEN procs' = [procs EXCEPT ![p] =
                   IF c.fn = "Create" THEN [c EXCEPT !.pc = "MkdirAll"]
                   ELSE [c EXCEPT !.pc = "returned",
                                  !.path = Join(BasePath, c.candidate)]]
           ELSE /\ c.i < MaxTries
                /\ procs' = [procs EXCEPT ![p] =
                       [c EXCEPT !.candidate = c.name \o <<"-">> \o Digits(c.i),
                                 !.i = c.i + 1]]
    /\ UNCHANGED <<fs, sessionVars, deleteVars, call, result>>

\* Create after uniqueName, in the p-th call: os.MkdirAll and the return
CreateMkdirAll(p) ==
    /\ procs[p].pc = "MkdirAll"
    /\ LET fullPath == JoinText(BasePath, procs[p].candidate) IN
       /\ fs' = MkdirAll(fs, fullPath)
       /\ procs' = [procs EXCEPT ![p] = [@ EXCEPT !.pc = "returned", !.path = fullPath]]
    /\ UNCHANGED <<sessionVars, deleteVars, call, result>>

SpecCreators ==
    InitCreate
      /\ [][\/ \E rawName \in {<<"e">>, <<" ", "e", " ">>, <<"e", " ", "s">>} :
                  CreateBegin(rawName)
            \/ CloneScriptBegin(GitAt \o <<"h", ":", "e", "/", "s">>)
            \/ \E p \in DOMAIN procs : uniqueNameStat(p) \/ CreateMkdirAll(p)]_vars

-----------------------------------------------------------------------------
(* Calls of workspace.Scan *)

\* latest modification time of the directories Scan is called on
MaxMtimeScanned == 8

\* the base directory as kind base with the given nodes, or none ("absent"),
\* under the names "ye", "es", <today>-e, "e", ".s" and "Y"
FsScanned(base, ye, es, te, e, hs, lb) ==
    LET under == (<<B, YE>> :> ye) @@ (<<B, S>> :> es) @@ (<<B, TodayE>> :> te) @@
                 (<<B, E>> :> e) @@ (<<B, HS>> :> hs) @@ (<<B, LB>> :> lb)
        there == {p \in DOMAIN under : under[p].kind # "absent"}
    IN  [p \in {<<B>>, <<O>>} \cup there |->
            IF p = <<B>> THEN base ELSE IF p = <<O>> THEN Dir(1) ELSE under[p]]

InitScan ==
    /\ fs \in LET absent == [kind |-> "absent"]
                  dirs == {Dir(t) : t \in 1..MaxMtimeScanned} \cup {absent}
              IN  {FsScanned(Dir(1), ye, es, te, e, hs, lb) :
                       ye \in dirs, es \in {absent, Dir(1), Dir(2)}, te \in dirs,
                       e \in {absent, File(1), Dir(1)}, hs \in {absent, Dir(2)},
                       lb \in {absent, Link(<<O>>)}}
                  \cup {FsScanned(base, Dir(1), Dir(2), absent, absent, absent, absent) :
                           base \in {NoReadDir(1), File(1)}}
                  \cup {FsMissing}
    /\ phase = "done"
    /\ loader = "delivered"
    /\ loadMsg = [type |-> "none", err |-> "nil", entries |-> <<>>]
    /\ pendingFilter = {}
    /\ late = 0
    /\ state = "StateSelector"
    /\ list = NewList
    /\ entries = <<>>
    /\ size = <<0, 0>>
    /\ deleteTarget = <<>>
    /\ deleteConfirm = <<>>
    /\ action = NoAction
    /\ err = "nil"
    /\ cmd = "nil"
    /\ out = NoOut
    /\ delBase = <<>>
    /\ delPath = <<>>
    /\ delResult = "none"
    /\ fsBefore = fs
    /\ call = NoCall
    /\ result = NoResult
    /\ procs = <<>>
    /\ rejected = <<>>
    /\ typed = <<>>
    /\ initialQuery = <<>>

\* a call Scan(BasePath)
ScanCall ==
    /\ call = NoCall
    /\ call' = [fn |-> "Scan", arg |-> BasePath]
    /\ result' \in Scan(fs, BasePath)
    /\ UNCHANGED exceptCall
    /\ UNCHANGED deleteVars

SpecScan == InitScan /\ [][ScanCall]_vars

-----------------------------------------------------------------------------
(* Scripts built command by command and rendered; calls of shell.Delete *)

\* most commands of a script built by hand
MaxCommands == 2

\* Script.AddCD, AddMkdir, AddTouch, AddEcho or AddRm on the script built so far
ScriptAdd ==
    /\ call.fn \in {"none", "Script"}
    /\ Len(call.arg) < MaxCommands
    /\ \E path \in {<<B, E>>, <<B, S>>} :
          \E s \in {AddCD(call.arg, path), AddMkdir(call.arg, path),
                    AddTouch(call.arg, path), AddEcho(call.arg, path),
                    AddRm(call.arg, path, BasePath)} :
              call' = [fn |-> "Script", arg |-> s]
    /\ result' = NoResult
    /\ UNCHANGED exceptCall
    /\ UNCHANGED deleteVars

\* Script.String on the script built so far
ScriptString ==
    /\ call.fn \in {"none", "Script"}
    /\ result = NoResult
    /\ call' = [fn |-> "Script", arg |-> call.arg]
    /\ result' = [kind |-> "text", text |-> String(call.arg)]
    /\ UNCHANGED exceptCall
    /\ UNCHANGED deleteVars

\* a call shell.Delete(paths, BasePath)
ShellDeleteCall(paths) ==
    /\ call = NoCall
    /\ call' = [fn |-> "Delete", arg |-> paths]
    /\ result' = [kind |-> "text", text |-> String(ShellDelete(paths, BasePath))]
    /\ UNCHANGED exceptCall
    /\ UNCHANGED deleteVars

SpecScript ==
    InitUrl /\ [][\/ ScriptAdd
                  \/ ScriptString
                  \/ \E paths \in {<<>>, <<<<B, E>>>>, <<<<B, S>>, <<B, E>>>>, <<<<O>>>>} :
                        ShellDeleteCall(paths)]_vars

-----------------------------------------------------------------------------
(* Scripted sessions: the user types a name and presses Enter, with and      *)
(* without the Filter key first                                              *)

Redis == <<"r", "e", "d", "i", "s">>

Scripts ==
    {Redis \o <<"enter">>, <<"/">> \o Redis \o <<"enter">>, <<"enter">>, <<"ctrl+n">>,
     <<"/">> \o DotGit \o <<"enter">>, <<"/">> \o DotGit \o <<"ctrl+n">>}

\* Update, case tea.KeyMsg, on the next key of a script
ScriptedKey ==
    \E sc \in Scripts :
        /\ Len(typed) < Len(sc)
        /\ SubSeq(sc, 1, Len(typed)) = typed
        /\ CanDeliver
        /\ handleKey(sc[Len(typed) + 1])
        /\ rejected' = Retried(sc[Len(typed) + 1])
        /\ typed' = Append(typed, sc[Len(typed) + 1])
        /\ UNCHANGED <<fs, loader, loadMsg, entries, size, err, out>>
        /\ UNCHANGED <<deleteVars, callVars, initialQuery>>

\* the query argument of runSelector: none, a name, a name with a space
InitTyped ==
    /\ fs \in {FsEmpty, FsTwo}
    /\ \E q \in {<<>>, <<"e", "s">>, <<"e", " ", "s">>} : New(q)

NextTyped ==
    \/ ScriptedKey
    \/ UpdateWindowSize
    \/ loadEntries
    \/ UpdateEntriesLoaded
    \/ \E v \in pendingFilter : UpdateFilterMatches(v)
    \/ QuitMsg
    \/ runSelectorFinish

SpecTyped == InitTyped /\ [][NextTyped]_vars

-----------------------------------------------------------------------------
(* Claims *)

InConfirm == state = "StateDeleteConfirm"

\* the latest Update emitted an intent: it set the action and returned tea.Quit
Emitted(a) == action' = a /\ cmd' = "quit" /\ phase' # "running"

\* the latest Update emitted nothing: the action is as before, no tea.Quit
NothingEmitted == action' = action /\ cmd' # "quit" /\ phase' = phase

\* C1 (as claimed): a Ctrl-C key event makes the session emit Cancel and
\* terminate from every state, the delete-confirmation state included.
C1_CtrlCAlwaysCancels ==
    [][UpdateKey("ctrl+c") => Emitted(ActionCancel)]_vars

\* C2 (as claimed): once Update has set the action and returned tea.Quit, no
\* later event handed to Update changes the action, state, deleteTarget,
\* deleteConfirm, entries or err.
C2_NoMutationAfterIntent ==
    [][(action # NoAction /\ phase # "running")
          => UNCHANGED <<action, state, deleteTarget, deleteConfirm, entries, err>>]_vars

\* t lies strictly below b
StrictlyInside(t, b) == Len(t) > Len(b) /\ SubSeq(t, 1, Len(b)) = b

\* p resolves, symbolic links followed, to a place strictly below where base
\* resolves to
ResolvesInside(f, p, base) ==
    LET rb == EvalSymlinks(f, Abs(base))
        rt == EvalSymlinks(f, Abs(p))
    IN  rb.ok /\ rt.ok /\ StrictlyInside(rt.path, rb.path)

\* C3: when the target of Delete(basePath, path) resolves to a place that is
\* not strictly inside the resolved base, Delete returns an error and removes
\* nothing; and what a successful Delete removes is the resolved target and
\* what lies below it, all strictly inside the resolved base.
C3_DeleteOnlyInsideBase ==
    delResult # "none" =>
        /\ ~ResolvesInside(fsBefore, delPath, delBase)
              => (delResult # "nil" /\ fs = fsBefore)
        /\ delResult = "nil" =>
              /\ \A q \in DOMAIN fsBefore \ DOMAIN fs :
                    /\ StrictlyInside(q, EvalSymlinks(fsBefore, Abs(delBase)).path)
                    /\ HasPrefix(q, EvalSymlinks(fsBefore, Abs(delPath)).path)
              /\ EvalSymlinks(fsBefore, Abs(delPath)).path \notin DOMAIN fs
              /\ \A q \in DOMAIN fs : fs[q] = fsBefore[q]

\* C3 witness: a path whose literal string starts with the base, through a
\* link to a place outside it, was refused
C3_RefusedThroughLink ==
    /\ delResult = "safety check failed"
    /\ delBase = <<B>>
    /\ delPath = <<B, E>>
    /\ HasPrefix(Str(delPath), Str(delBase) \o <<"/">>)
    /\ fs = fsBefore

\* C4 (as claimed): every path of a Delete intent is validated as a descendant
\* of the base directory before a removal command for it is emitted: a
\* removal command is only ever emitted for a path that resolves inside it.
C4_RmOnlyForPathsInsideBase ==
    (phase = "done" /\ out.kind = "script") =>
        \A i \in 1..Len(out.script) :
            out.script[i].op = "rm -rf"
                => ResolvesInside(fs, out.script[i].path, BasePath)

\* C5: deleteTarget is non-empty exactly in the delete-confirmation state, and
\* the confirmation text is empty outside it.
C5_ConfirmFieldsIffConfirming ==
    /\ (deleteTarget # <<>>) <=> InConfirm
    /\ ~InConfirm => deleteConfirm = <<>>

\* C5 witness: confirming, a target captured and some text typed
C5_ConfirmingWithText ==
    InConfirm /\ deleteTarget # <<>> /\ Len(deleteConfirm) = 2 /\ rejected # <<>>

C7_RefusedThenConfirmed ==
    /\ [][(InConfirm /\ UpdateKey("enter") /\ deleteConfirm # YES)
            => /\ state' = "StateSelector"
               /\ NothingEmitted
               /\ deleteTarget' = <<>> /\ deleteConfirm' = <<>>
               /\ entries' = entries /\ list' = list
               /\ rejected' = deleteTarget]_vars
    /\ [][(InConfirm /\ UpdateKey("enter") /\ deleteConfirm = YES
              /\ deleteTarget = rejected)
            => Emitted(ActionDelete(<<rejected>>, BasePath))]_vars

\* C7 witness: Delete emitted for an entry whose confirmation was refused before
C7_DeleteAfterRefusal ==
    /\ rejected # <<>>
    /\ action = ActionDelete(<<rejected>>, BasePath)
    /\ cmd = "quit"
    /\ \E i \in 1..Len(entries) : entries[i].Path = rejected

IgnoredWhileConfirming == Keys \ (Runes \cup {"backspace", "esc", "enter"})

\* C8: in the confirmation state no key event reaches the list: the index, the
\* filter text, the filter state, the items and the entries are as before
\* across every key event, and a key other than a printable character,
\* Backspace, Escape and Enter changes nothing at all.
C8_KeysDoNotReachList ==
    /\ [][(InConfirm /\ (\E k \in Keys : UpdateKey(k)))
            => (list' = list /\ entries' = entries /\ pendingFilter' = pendingFilter)]_vars
    /\ [][(InConfirm /\ (\E k \in IgnoredWhileConfirming : UpdateKey(k)))
            => (NothingEmitted /\
                UNCHANGED <<state, list, entries, size, deleteTarget, deleteConfirm,
                            err, pendingFilter>>)]_vars

\* C8 witness: confirming over a list with an applied filter and a moved cursor
C8_ConfirmingOverFilteredList ==
    /\ InConfirm /\ deleteConfirm # <<>>
    /\ list.filterState = "FilterApplied" /\ list.index > 0

\* C9: outside the confirmation state Enter emits Navigate(selected path) when
\* an entry is selected; otherwise CreateNew(filterText, baseDir) when the
\* filter text is non-empty; otherwise nothing, and the session goes on.
C9_EnterResolves ==
    [][(~InConfirm /\ UpdateKey("enter"))
         => IF HasSelection(list)
            THEN Emitted(ActionCD(SelectedItem(list).Path, BasePath))
            ELSE IF FilterValue(list) # <<>>
                 THEN Emitted(ActionCreate(FilterValue(list), BasePath))
                 ELSE NothingEmitted /\
                      UNCHANGED <<state, list, entries, deleteTarget, deleteConfirm>>]_vars

\* C9 witness: CreateNew emitted from the filter text with no entry selected
C9_CreateFromFilter ==
    /\ action.Type = "ActionCreate" /\ action.Name = FilterValue(list)
    /\ cmd = "quit" /\ ~HasSelection(list) /\ Len(list.items) > 0

ActivelyFiltering == FilterState(list) = "Filtering"

\* C10 (as claimed): in selector mode Escape emits Cancel and terminates in
\* every situation other than actively filtering with a non-empty filter text.
C10_EscCancelsUnlessFilterText ==
    [][(~InConfirm /\ UpdateKey("esc")
           /\ ~(ActivelyFiltering /\ FilterValue(list) # <<>>))
         => Emitted(ActionCancel)]_vars

\* C10 (amended): in selector mode Escape emits Cancel and terminates in every
\* situation other than actively filtering, whatever the filter text: with an
\* applied filter it emits Cancel; while actively filtering, with an empty
\* filter text too, it leaves filter mode and emits nothing.
C10_EscCancelsUnlessFiltering ==
    [][(~InConfirm /\ UpdateKey("esc"))
         => IF ActivelyFiltering
            THEN /\ NothingEmitted
                 /\ FilterState(list') = "Unfiltered" /\ FilterValue(list') = <<>>
            ELSE Emitted(ActionCancel)]_vars

\* C10 witness: Cancel emitted by Escape over an applied filter
C10_CancelOverAppliedFilter ==
    /\ action = ActionCancel /\ cmd = "quit"
    /\ FilterState(list) = "FilterApplied" /\ FilterValue(list) # <<>>

\* C11: Escape while actively filtering with a non-empty filter text clears
\* the filter and returns to unfiltered browsing over all the items; it emits
\* no intent and the session goes on.
C11_EscClearsFilter ==
    [][(~InConfirm /\ ActivelyFiltering /\ FilterValue(list) # <<>>
           /\ UpdateKey("esc"))
         => /\ NothingEmitted
            /\ FilterState(list') = "Unfiltered"
            /\ FilterValue(list') = <<>>
            /\ VisibleItems(list') = list.items
            /\ state' = "StateSelector"
            /\ action' = action /\ entries' = entries]_vars

\* C11 witness: browsing unfiltered again while the matches of the text "SE",
\* cleared by Escape, are still in flight
C11_ClearedWhileMatching ==
    /\ phase = "running" /\ action = NoAction /\ cmd = "nil"
    /\ FilterState(list) = "Unfiltered" /\ FilterValue(list) = <<>>
    /\ Len(list.items) = 2
    /\ pendingFilter = {<<>>}

\* C12: outside the confirmation state the New key (Ctrl+N) emits
\* CreateNew(filterText, baseDir) and terminates whenever the filter text is
\* non-empty, an entry being selected or not; with an empty filter text it
\* emits nothing and changes nothing.
C12_NewKeyCreatesFromFilter ==
    [][(~InConfirm /\ UpdateKey("ctrl+n"))
         => IF FilterValue(list) # <<>>
            THEN Emitted(ActionCreate(FilterValue(list), BasePath))
            ELSE /\ NothingEmitted
                 /\ UNCHANGED <<state, list, entries, deleteTarget, deleteConfirm,
                                pendingFilter>>]_vars

\* C12 witness: CreateNew emitted, by the first key to end the session, while
\* an entry is selected
C12_CreateOverSelection ==
    /\ action.Type = "ActionCreate" /\ action.Name = FilterValue(list)
    /\ action.BaseDir = BasePath
    /\ cmd = "quit" /\ late = 0 /\ phase = "quitting"
    /\ HasSelection(list) /\ FilterState(list) = "FilterApplied"

\* C13: outside the confirmation state the Delete key (Ctrl+D), with an entry
\* selected, sets deleteTarget to that entry's path, empties the confirmation
\* text and enters the confirmation state, emitting nothing; with nothing
\* selected it leaves the session state as it is.
C13_DeleteKeyCapturesSelection ==
    [][(~InConfirm /\ UpdateKey("ctrl+d"))
         => /\ NothingEmitted
            /\ list' = list /\ entries' = entries /\ err' = err
            /\ IF HasSelection(list)
               THEN /\ deleteTarget' = SelectedItem(list).Path
                    /\ deleteConfirm' = <<>>
                    /\ state' = "StateDeleteConfirm"
               ELSE UNCHANGED <<state, deleteTarget, deleteConfirm>>]_vars

\* C13 witness: the confirmation state just entered for the second entry
C13_SecondEntryCaptured ==
    /\ InConfirm /\ deleteConfirm = <<>> /\ cmd = "nil" /\ action = NoAction
    /\ list.index = 1 /\ HasSelection(list)
    /\ deleteTarget = SelectedItem(list).Path
    /\ deleteTarget # VisibleItems(list)[1].Path

\* C14 (as claimed): when the load fails, the errMsg makes the session
\* terminate with the error recorded and no intent produced (the action is
\* nil), whatever keys were handled before the message is delivered; and the
\* caller reports the error instead of printing a script.
C14_LoadFailureLeavesNoIntent ==
    /\ [][UpdateErr => /\ err' = loadMsg.err /\ err' # "nil"
                       /\ cmd' = "quit" /\ phase' # "running"
                       /\ action' = NoAction]_vars
    /\ []((phase = "done" /\ err # "nil") => out.kind = "error")

\* the base directory holds nothing Scan lists
NoEntries == ScanKept(fs, BasePath, BasePath) = {}

\* C15 (as claimed): in a session started with no entries, Enter after the
\* keys r, e, d, i, s emits CreateNew("redis", baseDir), and the collaborator
\* then makes the directory <today>-redis.
C15_TypedNameThenEnterCreates ==
    /\ [][(NoEntries /\ typed = Redis /\ ScriptedKey)
            => Emitted(ActionCreate(Redis, BasePath))]_vars
    /\ []((NoEntries /\ typed = Redis \o <<"enter">> /\ phase = "done")
            => out = [kind |-> "script",
                      script |-> ShellMkdirCD(<<B, Today \o <<"-">> \o Redis>>)])

\* C16 (as claimed): a session started with an initial query begins with the
\* filter text equal to the stored query (the query with "-" for every
\* space), so that Enter or the New key with nothing selected, pressed first,
\* emits CreateNew for it.
C16_QueryIsStartingFilter ==
    /\ [](typed = <<>> => FilterValue(list) = initialQuery)
    /\ [][(typed = <<>> /\ initialQuery # <<>> /\ ~HasSelection(list) /\ ScriptedKey
              /\ typed' \in {<<"enter">>, <<"ctrl+n">>})
            => Emitted(ActionCreate(initialQuery, BasePath))]_vars

\* C17 (as claimed): when runExec is given a text that passes IsGitURL and
\* that ParseGitURL rejects, it does not end with an error: the text becomes
\* the query of the selector, a literal name to create.
C17_ParseFailureFallsBackToQuery ==
    (call.fn = "runExec" /\ IsGitURL(call.arg) /\ ~ParseGitURL(call.arg).ok)
        => (result.kind = "selector" /\ result.query = call.arg)

\* C18 (as claimed): every successful result of ParseGitURL has Host, User
\* and Repo non-empty and free of "/".
C18_ParsedPartsNonEmptyNoSlash ==
    (call.fn = "ParseGitURL" /\ result.ok)
        => \A part \in {result.Host, result.User, result.Repo} :
               part # <<>> /\ Without(part, "/")

\* the ways to read s as prefix HOST sep USER "/" REPO with the three parts
\* non-empty and free of "/", HOST ending at the first sep
ShapeSplits(s, prefix, sep) ==
    {ParsedURL(SubSeq(s, Len(prefix) + 1, p[1] - 1), SubSeq(s, p[1] + 1, p[2] - 1),
               SubSeq(s, p[2] + 1, Len(s))) :
        p \in {q \in (1..Len(s)) \X (1..Len(s)) :
                 /\ HasPrefix(s, prefix)
                 /\ q[1] > Len(prefix) + 1 /\ s[q[1]] = sep
                 /\ q[2] > q[1] + 1 /\ q[2] < Len(s) /\ s[q[2]] = "/"
                 /\ Without(SubSeq(s, Len(prefix) + 1, q[1] - 1), "/")
                 /\ Without(SubSeq(s, Len(prefix) + 1, q[1] - 1), sep)
                 /\ Without(SubSeq(s, q[1] + 1, q[2] - 1), "/")
                 /\ Without(SubSeq(s, q[2] + 1, Len(s)), "/")}}

\* the readings of s in the two shapes git@HOST:USER/REPO, http(s)://HOST/USER/REPO
OfShape(s) ==
    ShapeSplits(s, GitAt, ":") \cup ShapeSplits(s, HttpsScheme, "/")
        \cup ShapeSplits(s, HttpScheme, "/")

\* C19 (as claimed): ParseGitURL, one trailing ".git" removed, returns the
\* host, user and repo of every input of one of the two shapes, the same with
\* ".git" added, and fails on every other input.
C19_ParsesExactlyTheTwoShapes ==
    call.fn = "ParseGitURL"
        => /\ IF OfShape(TrimSuffix(call.arg, DotGit)) = {} THEN ~result.ok
              ELSE result \in OfShape(TrimSuffix(call.arg, DotGit))
           /\ ~HasSuffix(call.arg, DotGit) => ParseGitURL(call.arg \o DotGit) = result

\* the texts that occur in s, the empty one included
Parts(s) == {SubSeq(s, i, j) : i \in 1..(Len(s) + 1), j \in 0..Len(s)}

\* C20: IsGitURL(s) is true exactly when s starts with "git@", "http://" or
\* "https://", ends with ".git", or holds "github.com" or "gitlab.com"
\* somewhere; it is false for the empty text, plain names and paths.
C20_IsGitURLIsTheHeuristic ==
    call.fn = "IsGitURL"
        => /\ result.value <=>
                \E t \in Parts(call.arg), v \in Parts(call.arg) :
                    \/ call.arg = GitAt \o t
                    \/ call.arg = HttpScheme \o t
                    \/ call.arg = HttpsScheme \o t
                    \/ call.arg = t \o DotGit
                    \/ call.arg = t \o GithubCom \o v
                    \/ call.arg = t \o GitlabCom \o v
           /\ call.arg \in {<<>>, <<"m", "y", "-", "p", "r", "o", "j", "e", "c", "t">>, <<"/", "p", "a", "t", "h", "/", "t", "o", "/", "r", "e", "p", "o">>}
                => ~result.value

\* a text that is a git reference by its ".git" ending alone
C20_ReferenceByEndingAlone ==
    /\ call = [fn |-> "IsGitURL", arg |-> <<"s", "o", "m", "e", "t", "h", "i", "n", "g", ".", "g", "i", "t">>]
    /\ result.value

\* the name Create is to pick: the candidate when no entry of basePath has it,
\* else the candidate with the least number from 2 on that no entry has
FirstUnused(f, basePath, candidate) ==
    LET numbered(k) == candidate \o <<"-">> \o Digits(k)
        used(n) == Join(basePath, n) \in DOMAIN f
    IN  IF ~used(candidate) THEN candidate
        ELSE numbered(CHOOSE k \in 2..(Cardinality(DOMAIN f) + 2) :
                        /\ ~used(numbered(k))
                        /\ \A j \in 2..(k - 1) : used(numbered(j)))

\* <date>-<sanitized>: the raw name trimmed, "-" for every space
Candidate(rawName) ==
    LET t == TrimSpace(rawName) IN
    Today \o <<"-">> \o [i \in 1..Len(t) |-> IF t[i] = " " THEN "-" ELSE t[i]]

\* C21: Create returns basePath/<date>-<sanitized> when no entry has that
\* name, else the first free name of <candidate>-2, <candidate>-3, ...; the
\* directory returned is new and exists after the call; a second call with
\* the same name after one that returned <candidate> returns <candidate>-2
\* (when that name is free).
C21_CreateReturnsFirstUnusedName ==
    /\ [][NextCreate =>
            /\ result'.path =
                   Join(BasePath, FirstUnused(fs, BasePath, Candidate(call'.arg)))
            /\ result'.path \notin DOMAIN fs
            /\ result'.path \in DOMAIN fs' /\ fs'[result'.path].kind = "dir"
            /\ \A p \in DOMAIN fs : fs'[p] = fs[p]]_vars
    /\ [][(NextCreate /\ call.fn = "Create" /\ call'.arg = call.arg
              /\ result.path = Join(BasePath, Candidate(call.arg))
              /\ Join(BasePath, Candidate(call.arg) \o <<"-", "2">>) \notin DOMAIN fs)
            => result'.path = Join(BasePath, Candidate(call.arg) \o <<"-", "2">>)]_vars

\* a call with the name "e" found <today>-e and <today>-e-2 taken, after an
\* earlier call, and returned <today>-e-3
C21_ThirdNameAfterTwoTaken ==
    /\ call = [fn |-> "Create", arg |-> <<"e">>]
    /\ <<B, TodayE>> \in DOMAIN fsBefore /\ <<B, TodayE \o <<"-", "2">>>> \in DOMAIN fsBefore
    /\ Cardinality(DOMAIN fsBefore) > 3
    /\ result.path = <<B, TodayE \o <<"-", "3">>>>

\* the names of the non-hidden directories directly under basePath
SubdirNames(f, basePath) ==
    {p[Len(p)] : p \in {q \in DOMAIN f :
        /\ Len(q) = Len(basePath) + 1
        /\ SubSeq(q, 1, Len(basePath)) = basePath
        /\ f[q].kind = "dir"
        /\ q[Len(q)][1] # "."}}

C23_MissingBaseIsEmptyOtherFailureIsFatal ==
    /\ [][loadEntries =>
            /\ (BasePath \notin DOMAIN fs)
                  => loadMsg' = [type |-> "entriesLoadedMsg", err |-> "nil",
                                 entries |-> <<>>]
            /\ (BasePath \in DOMAIN fs /\ ~fs[BasePath].readable)
                  => (loadMsg'.type = "errMsg" /\ loadMsg'.err # "nil"
                        /\ loadMsg'.entries = <<>>)]_vars
    /\ [][UpdateErr => (err' = loadMsg.err /\ err' # "nil" /\ cmd' = "quit"
                          /\ phase' # "running" /\ entries' = entries)]_vars
    /\ []((phase = "done" /\ err # "nil") => out.kind = "error")

\* a session on an unreadable base ended with the error reported
C23_ReadFailureReported ==
    /\ fs = FsDenied
    /\ phase = "done"
    /\ out.kind = "error"

\* a session on a missing base loaded an empty catalog without an error
C23_MissingBaseLoadedEmpty ==
    /\ BasePath \notin DOMAIN fs
    /\ loader = "delivered"
    /\ err = "nil"
    /\ entries = <<>>

\* C24: the entries Scan returns are in descending order of ModTime: no entry
\* comes before one modified later, whatever their scores.
C24_ScanOrderedByModTime ==
    (call.fn = "Scan" /\ result.err = "nil")
        => \A i \in 1..Len(result.entries) : \A j \in 1..Len(result.entries) :
               i < j => result.entries[i].ModTime >= result.entries[j].ModTime

\* a Scan returned an entry before one of a higher score
C24_LowerScoreFirst ==
    /\ call.fn = "Scan"
    /\ \E i \in 1..Len(result.entries) : \E j \in 1..Len(result.entries) :
          /\ i < j
          /\ result.entries[i].ModTime > result.entries[j].ModTime
          /\ Less(result.entries[i].BaseScore, result.entries[j].BaseScore)

\* C30 (as claimed): among the entries of one Scan, of two names without the
\* date prefix the one modified longer ago never scores higher, and a name
\* with the date prefix scores strictly higher than a name without it
\* modified at the same time.
C30_ScoreFallsWithAgeAndRisesWithPrefix ==
    call.fn = "Scan"
        => \A i \in 1..Len(result.entries) : \A j \in 1..Len(result.entries) :
              LET a == result.entries[i]
                  b == result.entries[j]
              IN  /\ (~DatePrefixed(a.Name) /\ ~DatePrefixed(b.Name)
                        /\ ScanTime - a.ModTime <= ScanTime - b.ModTime)
                       => ~Less(a.BaseScore, b.BaseScore)
                  /\ (DatePrefixed(a.Name) /\ ~DatePrefixed(b.Name)
                        /\ a.ModTime = b.ModTime)
                       => Less(b.BaseScore, a.BaseScore)

\* C25: the step that handles the completed load makes entries and the
\* list's items the loaded snapshot, in its order, and keeps the mode, the
\* delete target, the confirmation text, the action and the error; it
\* returns no command, so that no Intent is emitted by it.
C25_LoadReplacesEntriesOnly ==
    [][UpdateEntriesLoaded =>
         /\ entries' = loadMsg.entries
         /\ list'.items = loadMsg.entries
         /\ VisibleItems(list') = loadMsg.entries
         /\ state' = state /\ deleteTarget' = deleteTarget
         /\ deleteConfirm' = deleteConfirm
         /\ action' = action /\ err' = err
         /\ cmd' = "nil" /\ phase' = phase]_vars

\* the load of two entries completed in a running session
C25_TwoEntriesLoaded ==
    /\ phase = "running"
    /\ loader = "delivered"
    /\ Len(entries) = 2
    /\ list.items = entries
    /\ action = NoAction

\* the scan of a session goes from started to sent (loadEntries ran) to
\* delivered (Update handled its message), and no step starts it again
OneScanOnly ==
    [][loader' # loader =>
         \/ (loader = "started" /\ loader' = "sent" /\ loadEntries)
         \/ (loader = "sent" /\ loader' = "delivered"
               /\ (UpdateEntriesLoaded \/ UpdateErr))]_vars

\* C26 (as claimed): a session starts one scan at most, no key, resize or
\* load completion starts another, and every session receives exactly one
\* load outcome message.
C26_ExactlyOneLoadOutcome ==
    /\ OneScanOnly
    /\ [](phase = "done" => loader = "delivered")

\* C26 (amended): a session starts one scan at most and no key, resize or
\* load completion starts another; it receives at most one load outcome
\* message, entries loaded or error, and none when it ends before.
C26_AtMostOneLoadOutcome ==
    /\ OneScanOnly
    /\ [](loader = "delivered" => loadMsg.type \in {"entriesLoadedMsg", "errMsg"})
    /\ [](loader # "delivered" => (entries = <<>> /\ err = "nil"))

\* a session ended by a selection after its one load
C26_SelectedAfterOneLoad ==
    /\ phase = "done"
    /\ loader = "delivered"
    /\ action.Type = "ActionCD"

\* a session ended before its load outcome was received
C26_EndedBeforeLoad ==
    /\ phase = "done"
    /\ loader # "delivered"

\* the list takes up and down as navigation keys
Browsing == state = "StateSelector" /\ FilterState(list) # "Filtering"

\* C27 (as claimed): the index of the selection is within the visible
\* (filtered) items whenever there are any; an up key at the first row and a
\* down key at the last row leave it where it is.
C27_IndexWithinFilteredView ==
    /\ [](Len(VisibleItems(list)) > 0 => list.index \in 0..(Len(VisibleItems(list)) - 1))
    /\ [][(Browsing /\ list.index = 0 /\ UpdateKey("up")) => list'.index = 0]_vars
    /\ [][(Browsing /\ list.index = Len(VisibleItems(list)) - 1 /\ UpdateKey("down"))
            => list'.index = list.index]_vars

\* C28: the session never emits a Clone; a New key over a filter text, and
\* an Enter with a filter text and no entry selected, emit CreateNew for the
\* text, also when IsGitURL holds for it.
C28_CommittedTextIsCreateNew ==
    /\ [](action.Type # "ActionClone")
    /\ [][(ScriptedKey /\ state = "StateSelector" /\ FilterValue(list) # <<>>
             /\ \/ typed' = typed \o <<"ctrl+n">>
                \/ (typed' = typed \o <<"enter">> /\ ~HasSelection(list)))
            => Emitted(ActionCreate(FilterValue(list), BasePath))]_vars

\* a text that passes IsGitURL was committed with the New key and emitted as
\* CreateNew
C28_ReferenceEmittedAsCreate ==
    /\ typed = <<"/">> \o DotGit \o <<"ctrl+n">>
    /\ IsGitURL(action.Name)
    /\ action.Type = "ActionCreate"

\* the positions in the rendered script r of the commands op on path
PositionsOf(r, op, path) == {i \in 1..Len(r) : r[i].op = op /\ r[i].path = path}

\* C29: the script printed for a Navigate intent touches the target
\* directory before it changes to it, and the cd runs only if the touch (and
\* everything before the cd) succeeded.
C29_TouchBeforeCD ==
    (phase = "done" /\ action.Type = "ActionCD" /\ out.kind = "script")
        => LET r == String(out.script)
               touches == PositionsOf(r, "touch", action.Path)
               cds == PositionsOf(r, "cd", action.Path)
           IN  /\ Cardinality(touches) = 1 /\ Cardinality(cds) = 1
               /\ \A t \in touches : \A c \in cds :
                     /\ t < c
                     /\ \A fails \in SUBSET (1..Len(r)) :
                           /\ t \in fails => c \notin RunFrom(r, 1, TRUE, FALSE, fails)
                           /\ c \in RunFrom(r, 1, TRUE, FALSE, fails) => t \in RunFrom(r, 1, TRUE, FALSE, fails)
                     /\ c \in RunFrom(r, 1, TRUE, FALSE, {})

\* a session ended with the script of a Navigate intent printed
C29_NavigateScriptPrinted ==
    /\ phase = "done"
    /\ action.Type = "ActionCD"
    /\ out = [kind |-> "script", script |-> ShellCD(action.Path)]

\* the positions in the rendered script r of its commands
CommandsOf(r) == {i \in 1..Len(r) : r[i].op \notin {"#", "&&"}}

\* C31: a Script renders its commands in the order they were added, chained
\* with "&&" so that each command runs only if all earlier ones succeeded (and
\* then does run); the Delete script changes to the base directory before any
\* rm command; an empty Script renders as the empty string.
C31_RenderedInOrderAndChained ==
    result.kind = "text"
        => LET r == result.text
               cmds == CommandsOf(r)
               rms == {i \in cmds : r[i].op = "rm -rf"}
           IN  /\ \A i \in cmds : i < Len(r) => r[i + 1].op = "&&"
               /\ \A fails \in SUBSET cmds : \A i \in cmds :
                     i \in RunFrom(r, 1, TRUE, FALSE, fails)
                         <=> \A j \in cmds : j < i => j \notin fails
               /\ call.fn = "Script"
                     => /\ SelectSeq(r, LAMBDA c : c.op \notin {"#", "&&"}) = call.arg
                        /\ (call.arg = <<>>) <=> (r = <<>>)
               /\ call.fn = "Delete"
                     => /\ {r[i].path : i \in rms} = {call.arg[n] : n \in DOMAIN call.arg}
                        /\ \E c \in cmds :
                              /\ r[c] = Command("cd", BasePath)
                              /\ \A i \in rms : c < i

\* the script of shell.Delete for two paths, rendered
C31_DeleteOfTwoRendered ==
    /\ call = [fn |-> "Delete", arg |-> <<<<B, S>>, <<B, E>>>>]
    /\ result.kind = "text"
    /\ Len(result.text) = 8

\* C32 (as claimed): two calls of Create or CloneScript for the same name that
\* interleave on the same base directory never return the same path, and every
\* returned path did not exist before its own call.
C32_InterleavedCallsReturnDistinctPaths ==
    \A p \in DOMAIN procs : \A q \in DOMAIN procs :
        (procs[p].pc = "returned" /\ procs[q].pc = "returned")
            => /\ procs[p].path \notin procs[p].before
               /\ (p # q /\ procs[p].name = procs[q].name)
                     => procs[p].path # procs[q].path

\* C33 (as claimed): uniqueName ends after finitely many turns of its loop
\* whatever Stat answers: it never passes over more candidates than there are
\* names in the base directory.
C33_UniqueNamePassesOnlyOverExistingNames ==
    \A p \in DOMAIN procs :
        procs[p].i - 2 <= Cardinality(Children(fs, BasePath))

\* path p is the base directory joined with the name of a loaded entry: a
\* direct child of the base directory, never the base directory itself
OfLoadedEntry(p) ==
    /\ \E i \in DOMAIN entries :
          p = Join(BasePath, entries[i].Name) /\ entries[i].Name \notin {<<>>, DotDot}
    /\ p # BasePath
    /\ Len(p) = Len(BasePath) + 1
    /\ SubSeq(p, 1, Len(BasePath)) = BasePath

\* C34: every path of a Navigate or Delete intent of the session is the base
\* directory joined with the name of an entry of the catalog loaded in that
\* session; it is never the base directory itself nor anything but a direct
\* child of it.
C34_IntentPathsAreLoadedEntries ==
    /\ action.Type = "ActionCD" => OfLoadedEntry(action.Path)
    /\ action.Type = "ActionDelete"
          => /\ action.Paths # <<>>
             /\ \A n \in DOMAIN action.Paths : OfLoadedEntry(action.Paths[n])

\* Navigate emitted for the second of two loaded entries, picked by a filter
C34_NavigateToFilteredEntry ==
    /\ Len(entries) = 2
    /\ list.filterState # "Unfiltered"
    /\ cmd = "quit"
    /\ action = ActionCD(entries[2].Path, BasePath)

====
